---- MODULE Spec2Model ----
(***************************************************************************)
(* The staged pipeline execution engine of nexo-machine                     *)
(* (scaffolds/pipeline/src/index.ts, class Pipeline).                       *)
(*                                                                          *)
(* One run of Pipeline.execute is modelled at the granularity of the        *)
(* engine's suspension points: every `await` of a hook dispatch, of a       *)
(* stage condition and of a stage body ends one atomic step.  What the      *)
(* caller supplies (stage bodies, conditions, hook listeners, calls of      *)
(* abort) is the environment: a body succeeds or throws, a condition        *)
(* answers true or false, a listener returns or throws, and abort(ctx)      *)
(* may be called while the engine is suspended.                             *)
(*                                                                          *)
(* The lifecycle phase runner (scaffolds/nexoc/src/lifecycle/index.ts,      *)
(* class LifecycleManager) is modelled the same way, as a second            *)
(* specification over its own variables: LifecycleSpec.  So are the stage   *)
(* list operations of Pipeline (EditSpec), composePipelines (ComposeSpec),  *)
(* two execute calls on one Pipeline (OverlapSpec) and                      *)
(* CommandExecutor.execute of scaffolds/commands/src/index.ts               *)
(* (CommandSpec).  Each specification leaves the variables of the others    *)
(* in their idle state.                                                     *)
(***************************************************************************)
EXTENDS Integers, Sequences, FiniteSets, TLC

(***************************************************************************)
(* Bounds of the model.                                                     *)
(***************************************************************************)
\* stages of a pipeline
MaxStages == 3
\* stages of a pipeline that has conditions or a policy other than stop
MaxGuardedStages == 2
\* stages of a pipeline under the retry policy
MaxRetryStages == 1
\* declared dependencies of one stage
MaxDeps == 2
\* the largest maxRetries option configured
MaxRetriesOpt == 2

\* stage objects handed to the stage list operations of one pipeline
MaxStageObjects == 4
\* child pipelines handed to composePipelines
MaxChildren == 3
\* execute calls made on one pipeline, and the stages of that pipeline
MaxRuns == 2
MaxOverlapStages == 2
\* option and argument definitions of a command, and raw arguments of a call
MaxOptionDefs == 2
MaxArgDefs == 1
MaxRawArgs == 2
\* phases a lifecycle run is told to skip
MaxSkipPhases == 2
\* writes of ctx.data by lifecycle listeners in one run
MaxListenerWrites == 1
\* calls of LifecycleManager.abort in one run
MaxAborts == 1

\* `this.options.maxRetries || 3`
DefaultMaxRetries == 3

StageNamePool == <<"A", "B", "C", "D", "E">>
AllNames == {StageNamePool[i] : i \in 1..MaxStages}

StageHooks == {"stage:skip", "stage:before", "stage:after", "stage:error"}
PipelineHooks == {"pipeline:start", "pipeline:end"}
HookKeys == (StageHooks \X AllNames) \cup (PipelineHooks \X {""})

Range(f) == {f[x] : x \in DOMAIN f}

VARIABLES
  stages,        \* Pipeline.stages: the stage names in list order
  dependencies,  \* PipelineStage.dependencies, by stage name
  hasCondition,  \* whether PipelineStage.condition is defined
  skippable,     \* PipelineStage.skippable
  options,       \* PipelineOptions: parallel, onError, maxRetries
  ctx,           \* the PipelineContext of the run
  epc,           \* where execute() stands
  outcome,       \* what execute() resolved or rejected with
  stageIndex,    \* executeSequential: the loop variable i (1-based)
  currentInput,  \* executeSequential / executeParallel: currentInput
  pending,       \* executeParallel: the pending set
  executable,    \* executeParallel: the stages of the current wave
  task,          \* one executeStage call per stage: its position and locals
  bodyCalls,     \* history: invocations of each stage's execute function
  bodyFails,     \* history: invocations that threw
  condSkipped,   \* history: stages whose condition answered false
  hookCount,     \* history: dispatches per hook (and stage)
  hookThrew,     \* history: the hooks one of whose listeners threw
  abortCalled,   \* history: abort(ctx) was called during the run
  settleOrder    \* history: the stages in the order their calls settled

pipelineVars ==
  <<stages, dependencies, hasCondition, skippable, options, ctx, epc,
    outcome, stageIndex, currentInput, pending, executable, task,
    bodyCalls, bodyFails, condSkipped, hookCount, hookThrew, abortCalled,
    settleOrder>>

VARIABLES
  runOptions,    \* run: startPhase, endPhase, skipPhases, transform supplied
  currentPhase,  \* LifecycleManager.currentPhase ("null" for null)
  context,       \* LifecycleManager.context: a reference into contexts, 0 for null
  contexts,      \* the LifecycleContext objects built so far
  lastContext,   \* run: lastContext, a reference into contexts, 0 for null
  data,          \* run: data
  phaseIndex,    \* run: the loop variable i (1-based)
  rpc,           \* where run() stands
  returned,      \* the context run() resolved with, 0 before
  runError,      \* the error run() rejected with
  dispatched,    \* history: the phases whose lifecycle hook was dispatched
  received,      \* history: the data value each dispatched phase was given
  transformed,   \* history: the phases the transform callback was called for
  settledHooks,  \* history: the phases whose hook dispatch has settled
  abortLog,      \* history: the calls of abort(reason) during the run
  writes,        \* history: how often a listener replaced ctx.data
  before         \* history: currentPhase and context when run was called

lifecycleVars ==
  <<runOptions, currentPhase, context, contexts, lastContext, data, phaseIndex,
    rpc, returned, runError, dispatched, received, transformed, settledHooks,
    abortLog, writes, before>>

VARIABLES
  stageList,     \* Pipeline.stages as stage objects: name and identity
  lastCall,      \* history: the last stage list operation, its arguments,
                 \* what it returned and the list it was called on
  created        \* history: the number of stage objects handed to the pipeline

editVars == <<stageList, lastCall, created>>

VARIABLES
  children,      \* composePipelines: the names of the pipelines composed
  kpc,           \* where execute() of the composed pipeline stands
  kIndex,        \* executeSequential of the composed pipeline: i (1-based)
  kInput,        \* executeSequential of the composed pipeline: currentInput
  kCtx,          \* the PipelineContext of the composed run
  kTask,         \* executeStage of the wrapping stage: input, result, error
  kOutcome,      \* what execute() of the composed pipeline settled with
  kLog           \* history: the child execute calls, their inputs and outcomes

composeVars == <<children, kpc, kIndex, kInput, kCtx, kTask, kOutcome, kLog>>

VARIABLES
  runContexts,   \* the PipelineContext objects built by the execute calls
  runCtx,        \* per execute call: its ctx, a reference into runContexts
  runPc,         \* per execute call: where it stands
  runIndex,      \* per execute call: executeSequential's i (1-based)
  runInput,      \* per execute call: currentInput
  runTask,       \* per execute call: executeStage's input, result, error
  runOutcome,    \* per execute call: what it settled with
  runLog         \* history, per execute call: what the environment did to it

overlapVars == <<runContexts, runCtx, runPc, runIndex, runInput, runTask,
                 runOutcome, runLog>>

VARIABLES
  command,       \* the Command: setup and cleanup defined, required keys
  parsed,        \* parseArgs' result: the option and argument keys with a value
  cpc,           \* where CommandExecutor.execute stands
  cmdError,      \* the error on its way to the caller
  cmdOutcome,    \* what execute settled with
  cmdLog         \* history: hooks dispatched and callbacks invoked, in order

commandVars == <<command, parsed, cpc, cmdError, cmdOutcome, cmdLog>>

VARIABLES
  commands,      \* CommandRegistry.commands: name -> command
  aliases,       \* CommandRegistry.aliases: alias -> name
  groups         \* CommandRegistry.groups: group -> set of names

registryVars == <<commands, aliases, groups>>

VARIABLES
  executed       \* executeParallel of the nexoc package copy: its `executed` set

nexocVars == <<executed>>

vars == <<pipelineVars, lifecycleVars, editVars, composeVars, overlapVars,
          commandVars, registryVars, nexocVars>>

\* what the actions of one component leave alone
notPipeline == <<lifecycleVars, editVars, composeVars, overlapVars, commandVars,
                 registryVars, nexocVars>>
notLifecycle == <<pipelineVars, editVars, composeVars, overlapVars, commandVars,
                  registryVars, nexocVars>>
notEdit == <<pipelineVars, lifecycleVars, composeVars, overlapVars, commandVars,
             registryVars, nexocVars>>
notCompose == <<pipelineVars, lifecycleVars, editVars, overlapVars, commandVars,
                registryVars, nexocVars>>
notOverlap == <<lifecycleVars, editVars, composeVars, commandVars, registryVars,
                nexocVars>>
notCommand == <<pipelineVars, lifecycleVars, editVars, composeVars, overlapVars,
                registryVars, nexocVars>>
notRegistry == <<pipelineVars, lifecycleVars, editVars, composeVars, overlapVars,
                 commandVars, nexocVars>>
\* what a run of the nexoc package copy leaves alone, besides its own state
notNexoc == <<lifecycleVars, editVars, composeVars, overlapVars, commandVars,
              registryVars>>

config == <<stages, dependencies, hasCondition, skippable, options>>

(***************************************************************************)
(* Values and errors.  A stage body is an uninterpreted function of its     *)
(* input: the value it returns is the term "stage applied to input", kept   *)
(* as the sequence of the stage names applied so far.                       *)
(***************************************************************************)
InitialInput == <<>>
StageFn(s, v) == Append(v, s)

NoError == <<>>
StageError(s, attempt) == <<"StageError", s, attempt>>
HookError(h, s) == <<"HookError", h, s>>
UnmetError(s) == <<"UnmetDependencies", s>>
CircularError == <<"CircularDependency">>

\* createPipelineContext
createPipelineContext ==
  [currentStageIndex |-> 0,
   stageResults |-> <<>>,
   shared |-> <<>>,
   aborted |-> FALSE,
   skippedStages |-> {}]

IdleTask == [pc |-> "idle", input |-> <<>>, retryCount |-> 0,
             result |-> <<>>, error |-> NoError]

NoOutcome == [result |-> <<>>, error |-> NoError]

HasResult(c, s) == s \in DOMAIN c.stageResults

\* mutants of SetResult and AddSkipped: the engine forgets to record
SetResultDropped(c, s, v) == c
AddSkippedDropped(c, s) == c

\* ctx.stageResults.set(stage.name, result)
SetResult(c, s, v) ==
  [c EXCEPT !.stageResults =
     [x \in (DOMAIN c.stageResults) \cup {s} |->
        IF x = s THEN v ELSE c.stageResults[x]]]
\* mutant: the set is replaced by the one name instead of growing
AddSkippedAlone(c, s) == [c EXCEPT !.skippedStages = {s}]

\* ctx.skippedStages.add(stage.name)
AddSkipped(c, s) == [c EXCEPT !.skippedStages = @ \cup {s}]

(***************************************************************************)
(* Pipeline.checkDependencies                                               *)
(***************************************************************************)
\* mutant: `some` in place of `every`
CheckDependenciesSome(s, c) ==
  \/ dependencies[s] = {}
  \/ \E dep \in dependencies[s] : HasResult(c, dep) \/ dep \in c.skippedStages

\* mutant: the check always passes
CheckDependenciesTrue(s, c) == TRUE

CheckDependencies(s, c) ==
  \/ dependencies[s] = {}
  \/ \A dep \in dependencies[s] : HasResult(c, dep) \/ dep \in c.skippedStages

\* `this.options.maxRetries || 3`: an unset and a zero maxRetries both give 3
EffectiveMaxRetries ==
  IF options.maxRetries = <<>> \/ options.maxRetries[1] = 0
  THEN DefaultMaxRetries
  ELSE options.maxRetries[1]

(***************************************************************************)
(* executeStage, from its entry to its first suspension.                    *)
(***************************************************************************)
\* mutant: the dependency check sits inside the try block, so that an unmet
\* dependency is handled by the error policy
AfterConditionInTry(s, t, c) ==
  IF ~CheckDependencies(s, c)
  THEN [t EXCEPT !.pc = "stage:error", !.error = UnmetError(s)]
  ELSE [t EXCEPT !.pc = "stage:before"]

\* mutant: the body is invoked without the dispatch of pipeline:stage:before
AfterConditionNoBefore(s, t, c) ==
  IF ~CheckDependencies(s, c)
  THEN [t EXCEPT !.pc = "rejected", !.error = UnmetError(s)]
  ELSE [t EXCEPT !.pc = "body"]

\* the dependency check and the dispatch of pipeline:stage:before
AfterCondition(s, t, c) ==
  IF ~CheckDependencies(s, c)
  THEN [t EXCEPT !.pc = "rejected", !.error = UnmetError(s)]
  ELSE [t EXCEPT !.pc = "stage:before"]

\* mutant: the dependencies are checked before the condition is evaluated
StartStageDependenciesFirst(s, input, retryCount, c) ==
  LET t == [IdleTask EXCEPT !.input = input, !.retryCount = retryCount]
  IN  IF ~CheckDependencies(s, c)
      THEN [t EXCEPT !.pc = "rejected", !.error = UnmetError(s)]
      ELSE IF hasCondition[s] THEN [t EXCEPT !.pc = "cond"]
      ELSE [t EXCEPT !.pc = "stage:before"]

StartStage(s, input, retryCount, c) ==
  LET t == [IdleTask EXCEPT !.input = input, !.retryCount = retryCount]
  IN  IF hasCondition[s] THEN [t EXCEPT !.pc = "cond"]
      ELSE AfterCondition(s, t, c)

\* mutant: the continue policy ignores stage.skippable and never absorbs
ErrorPolicyNeverSkip(s, retryCount) ==
  IF options.onError = "retry" /\ retryCount < EffectiveMaxRetries THEN "retry"
  ELSE "throw"

\* mutant: the continue policy absorbs the failure of every stage
ErrorPolicyAlwaysSkip(s, retryCount) ==
  IF options.onError = "retry" /\ retryCount < EffectiveMaxRetries THEN "retry"
  ELSE IF options.onError = "continue" THEN "skip"
  ELSE "throw"

\* the catch block of executeStage, after pipeline:stage:error was dispatched
ErrorPolicy(s, retryCount) ==
  IF options.onError = "retry" /\ retryCount < EffectiveMaxRetries THEN "retry"
  ELSE IF options.onError = "continue" /\ skippable[s] THEN "skip"
  ELSE "throw"

Bump(f, k) == [f EXCEPT ![k] = @ + 1]

(***************************************************************************)
(* The effect of one step of the executeStage call of stage s, which moves  *)
(* it to nt and leaves the context as c: the hook or body that nt waits     *)
(* for has been called, and a rejection reaches execute's catch block when  *)
(* execute is awaiting this call (epcNext = "await").                       *)
(***************************************************************************)
TaskStep(s, nt, c, epcNext) ==
  /\ task' = [task EXCEPT ![s] = nt]
  /\ hookCount' = IF nt.pc \in StageHooks THEN Bump(hookCount, <<nt.pc, s>>)
                  ELSE hookCount
  /\ bodyCalls' = IF nt.pc = "body" THEN Bump(bodyCalls, s) ELSE bodyCalls
  /\ settleOrder' = IF nt.pc \in {"fulfilled", "rejected"}
                    THEN Append(settleOrder, s) ELSE settleOrder
  /\ IF nt.pc = "rejected" /\ epcNext = "await"
     THEN /\ epc' = "rejected"
          /\ outcome' = [result |-> <<>>, error |-> nt.error]
          /\ ctx' = [c EXCEPT !.aborted = TRUE]
     ELSE /\ epc' = epcNext
          /\ outcome' = outcome
          /\ ctx' = c

(***************************************************************************)
(* Pipeline.execute                                                         *)
(***************************************************************************)
Execute ==
  /\ epc = "init"
  /\ epc' = "start"
  /\ ctx' = createPipelineContext
  /\ hookCount' = Bump(hookCount, <<"pipeline:start", "">>)
  /\ UNCHANGED notPipeline
  /\ UNCHANGED <<config, outcome, stageIndex, currentInput, pending, executable,
                 task, bodyCalls, bodyFails, condSkipped, hookThrew, abortCalled,
                 settleOrder>>

\* pipeline:start resolved: the try block is entered
StartHookDone ==
  /\ epc = "start"
  /\ \/ /\ epc' = "loop"
        /\ currentInput' = InitialInput
        /\ stageIndex' = 1
        /\ pending' = Range(stages)
        /\ UNCHANGED <<outcome, hookThrew>>
     \/ \* a listener threw: outside the try block, ctx.aborted stays as it is
        /\ epc' = "rejected"
        /\ outcome' = [result |-> <<>>, error |-> HookError("pipeline:start", "")]
        /\ hookThrew' = hookThrew \cup {"pipeline:start"}
        /\ UNCHANGED <<currentInput, stageIndex, pending>>
  /\ UNCHANGED notPipeline
  /\ UNCHANGED <<config, ctx, executable, task, bodyCalls, bodyFails,
                 condSkipped, hookCount, abortCalled, settleOrder>>

\* mutant: pipeline:end is never dispatched
CallEndHookSilent ==
  /\ epc' = "end"
  /\ UNCHANGED hookCount

\* the body returned currentInput: dispatch pipeline:end
CallEndHook ==
  /\ epc' = "end"
  /\ hookCount' = Bump(hookCount, <<"pipeline:end", "">>)

(***************************************************************************)
(* Pipeline.executeSequential                                               *)
(***************************************************************************)
\* mutant: every stage is given the pipeline's input
SeqInputInitial == InitialInput

\* `this.executeStage(stage, currentInput, ctx)`
SeqInput == currentInput

\* mutant: the loop has no `if (ctx.aborted) break`
SeqIterIgnoresAborted ==
  /\ epc = "loop"
  /\ ~options.parallel
  /\ IF stageIndex > Len(stages)
     THEN /\ CallEndHook
          /\ UNCHANGED <<ctx, outcome, task, bodyCalls, settleOrder>>
     ELSE LET s == stages[stageIndex]
              c == [ctx EXCEPT !.currentStageIndex = stageIndex - 1]
          IN  TaskStep(s, StartStage(s, SeqInput, 0, c), c, "await")
  /\ UNCHANGED notPipeline
  /\ UNCHANGED <<config, stageIndex, currentInput, pending, executable,
                 bodyFails, condSkipped, hookThrew, abortCalled>>

SeqIter ==
  /\ epc = "loop"
  /\ ~options.parallel
  /\ IF stageIndex > Len(stages) \/ ctx.aborted
     THEN /\ CallEndHook
          /\ UNCHANGED <<ctx, outcome, task, bodyCalls, settleOrder>>
     ELSE LET s == stages[stageIndex]
              c == [ctx EXCEPT !.currentStageIndex = stageIndex - 1]
          IN  TaskStep(s, StartStage(s, SeqInput, 0, c), c, "await")
  /\ UNCHANGED notPipeline
  /\ UNCHANGED <<config, stageIndex, currentInput, pending, executable,
                 bodyFails, condSkipped, hookThrew, abortCalled>>

SeqResume ==
  /\ epc = "await"
  /\ ~options.parallel
  /\ task[stages[stageIndex]].pc = "fulfilled"
  /\ currentInput' = task[stages[stageIndex]].result
  /\ stageIndex' = stageIndex + 1
  /\ epc' = "loop"
  /\ UNCHANGED notPipeline
  /\ UNCHANGED <<config, ctx, outcome, pending, executable, task, bodyCalls,
                 bodyFails, condSkipped, hookCount, hookThrew, abortCalled,
                 settleOrder>>

(***************************************************************************)
(* Pipeline.executeStage, one action per resumption                         *)
(***************************************************************************)
InFlight(s) == task[s].pc \notin {"idle", "fulfilled", "rejected"}

\* mutant: a false condition skips the stage without dispatching the hook
ConditionDoneSilent(s) ==
  /\ task[s].pc = "cond"
  /\ \E shouldRun \in BOOLEAN :
       IF shouldRun
       THEN /\ TaskStep(s, AfterCondition(s, task[s], ctx), ctx, epc)
            /\ UNCHANGED condSkipped
       ELSE /\ TaskStep(s, [task[s] EXCEPT !.pc = "fulfilled",
                                           !.result = task[s].input],
                        AddSkipped(ctx, s), epc)
            /\ condSkipped' = condSkipped \cup {s}
  /\ UNCHANGED notPipeline
  /\ UNCHANGED <<config, stageIndex, currentInput, pending, executable,
                 bodyFails, hookThrew, abortCalled>>

\* `await stage.condition(ctx)` resolved
ConditionDone(s) ==
  /\ task[s].pc = "cond"
  /\ \E shouldRun \in BOOLEAN :
       IF shouldRun
       THEN /\ TaskStep(s, AfterCondition(s, task[s], ctx), ctx, epc)
            /\ UNCHANGED condSkipped
       ELSE /\ TaskStep(s, [task[s] EXCEPT !.pc = "stage:skip"], ctx, epc)
            /\ condSkipped' = condSkipped \cup {s}
  /\ UNCHANGED notPipeline
  /\ UNCHANGED <<config, stageIndex, currentInput, pending, executable,
                 bodyFails, hookThrew, abortCalled>>

\* `await callHook('pipeline:stage:skip')` resolved
SkipHookDone(s) ==
  /\ task[s].pc = "stage:skip"
  /\ \/ /\ TaskStep(s, [task[s] EXCEPT !.pc = "fulfilled", !.result = task[s].input],
                    AddSkipped(ctx, s), epc)
        /\ UNCHANGED hookThrew
     \/ /\ TaskStep(s, [task[s] EXCEPT !.pc = "rejected",
                                       !.error = HookError("stage:skip", s)],
                    ctx, epc)
        /\ hookThrew' = hookThrew \cup {"stage:skip"}
  /\ UNCHANGED notPipeline
  /\ UNCHANGED <<config, stageIndex, currentInput, pending, executable,
                 bodyFails, condSkipped, abortCalled>>

\* `await callHook('pipeline:stage:before')` resolved: stage.execute is called
BeforeHookDone(s) ==
  /\ task[s].pc = "stage:before"
  /\ \/ /\ TaskStep(s, [task[s] EXCEPT !.pc = "body"], ctx, epc)
        /\ UNCHANGED hookThrew
     \/ /\ TaskStep(s, [task[s] EXCEPT !.pc = "rejected",
                                       !.error = HookError("stage:before", s)],
                    ctx, epc)
        /\ hookThrew' = hookThrew \cup {"stage:before"}
  /\ UNCHANGED notPipeline
  /\ UNCHANGED <<config, stageIndex, currentInput, pending, executable,
                 bodyFails, condSkipped, abortCalled>>

\* `await stage.execute(input, ctx)` settled
BodyDone(s) ==
  /\ task[s].pc = "body"
  /\ \/ LET result == StageFn(s, task[s].input)
        IN  /\ TaskStep(s, [task[s] EXCEPT !.pc = "stage:after", !.result = result],
                        SetResult(ctx, s, result), epc)
            /\ UNCHANGED bodyFails
     \/ /\ TaskStep(s, [task[s] EXCEPT !.pc = "stage:error",
                                       !.error = StageError(s, task[s].retryCount)],
                    ctx, epc)
        /\ bodyFails' = Bump(bodyFails, s)
  /\ UNCHANGED notPipeline
  /\ UNCHANGED <<config, stageIndex, currentInput, pending, executable,
                 condSkipped, hookThrew, abortCalled>>

\* `await callHook('pipeline:stage:after')` settled, inside the try block
AfterHookDone(s) ==
  /\ task[s].pc = "stage:after"
  /\ \/ /\ TaskStep(s, [task[s] EXCEPT !.pc = "fulfilled"], ctx, epc)
        /\ UNCHANGED hookThrew
     \/ /\ TaskStep(s, [task[s] EXCEPT !.pc = "stage:error",
                                       !.error = HookError("stage:after", s)],
                    ctx, epc)
        /\ hookThrew' = hookThrew \cup {"stage:after"}
  /\ UNCHANGED notPipeline
  /\ UNCHANGED <<config, stageIndex, currentInput, pending, executable,
                 bodyFails, condSkipped, abortCalled>>

\* `await callHook('pipeline:stage:error')` settled: the error policy
ErrorHookDone(s) ==
  /\ task[s].pc = "stage:error"
  /\ \/ /\ LET policy == ErrorPolicy(s, task[s].retryCount)
           IN  CASE policy = "retry" ->
                      TaskStep(s, StartStage(s, task[s].input,
                                             task[s].retryCount + 1, ctx),
                               ctx, epc)
                 [] policy = "skip" ->
                      TaskStep(s, [task[s] EXCEPT !.pc = "fulfilled",
                                                  !.result = task[s].input],
                               AddSkipped(ctx, s), epc)
                 [] OTHER ->
                      TaskStep(s, [task[s] EXCEPT !.pc = "rejected"], ctx, epc)
        /\ UNCHANGED hookThrew
     \/ /\ TaskStep(s, [task[s] EXCEPT !.pc = "rejected",
                                       !.error = HookError("stage:error", s)],
                    ctx, epc)
        /\ hookThrew' = hookThrew \cup {"stage:error"}
  /\ UNCHANGED notPipeline
  /\ UNCHANGED <<config, stageIndex, currentInput, pending, executable,
                 bodyFails, condSkipped, abortCalled>>

(***************************************************************************)
(* Pipeline.execute: pipeline:end settled                                   *)
(***************************************************************************)
EndHookDone ==
  /\ epc = "end"
  /\ \/ /\ epc' = "resolved"
        /\ outcome' = [result |-> currentInput, error |-> NoError]
        /\ UNCHANGED <<ctx, hookThrew>>
     \/ /\ epc' = "rejected"
        /\ outcome' = [result |-> <<>>, error |-> HookError("pipeline:end", "")]
        /\ ctx' = [ctx EXCEPT !.aborted = TRUE]
        /\ hookThrew' = hookThrew \cup {"pipeline:end"}
  /\ UNCHANGED notPipeline
  /\ UNCHANGED <<config, stageIndex, currentInput, pending, executable, task,
                 bodyCalls, bodyFails, condSkipped, hookCount, abortCalled,
                 settleOrder>>

(***************************************************************************)
(* Pipeline.abort, called by a stage body, a condition or a listener that   *)
(* holds the context, while the engine is suspended.                        *)
(***************************************************************************)
Abort ==
  /\ epc \in {"start", "await", "end"}
  /\ ~ctx.aborted
  /\ ctx' = [ctx EXCEPT !.aborted = TRUE]
  /\ abortCalled' = TRUE
  /\ UNCHANGED notPipeline
  /\ UNCHANGED <<config, epc, outcome, stageIndex, currentInput, pending,
                 executable, task, bodyCalls, bodyFails, condSkipped, hookCount,
                 hookThrew, settleOrder>>

(***************************************************************************)
(* Pipeline.executeParallel                                                 *)
(***************************************************************************)
\* mutant: every pending stage is launched, whatever it depends on
ExecutablePending(pend, c) == SelectSeq(stages, LAMBDA s : s \in pend)

\* mutant: no stage is ever found eligible
ExecutableNone(pend, c) == SelectSeq(stages, LAMBDA s : FALSE)

\* this.stages.filter(stage => pending.has(stage.name) && checkDependencies)
Executable(pend, c) ==
  SelectSeq(stages, LAMBDA s : s \in pend /\ CheckDependencies(s, c))

\* mutant: the first result of the wave is carried forward
CarriedValueFirst(exe, results) == results[exe[1]]

\* the value carried out of a wave: executable.forEach assigns results[index]
\* to currentInput in list order, so the last assignment stays
CarriedValue(exe, results) == results[exe[Len(exe)]]

ParIter ==
  /\ epc = "loop"
  /\ options.parallel
  /\ IF pending = {}
     THEN /\ CallEndHook
          /\ UNCHANGED <<ctx, outcome, task, executable, settleOrder>>
     ELSE LET exe == Executable(pending, ctx)
              launched == [s \in Range(exe) |-> StartStage(s, currentInput, 0, ctx)]
              failed == SelectSeq(exe, LAMBDA s : launched[s].pc = "rejected")
          IN  IF exe = <<>>
              THEN /\ epc' = "rejected"
                   /\ outcome' = [result |-> <<>>, error |-> CircularError]
                   /\ ctx' = [ctx EXCEPT !.aborted = TRUE]
                   /\ UNCHANGED <<task, executable, hookCount, settleOrder>>
              ELSE /\ executable' = exe
                   /\ settleOrder' = settleOrder \o failed
                   /\ task' = [s \in AllNames |->
                                 IF s \in Range(exe) THEN launched[s] ELSE task[s]]
                   /\ hookCount' = [k \in HookKeys |->
                        IF k[2] \in Range(exe) /\ launched[k[2]].pc = k[1]
                        THEN hookCount[k] + 1 ELSE hookCount[k]]
                   /\ IF failed = <<>>
                      THEN /\ epc' = "await"
                           /\ UNCHANGED <<ctx, outcome>>
                      ELSE /\ epc' = "rejected"
                           /\ outcome' = [result |-> <<>>,
                                          error |-> launched[failed[1]].error]
                           /\ ctx' = [ctx EXCEPT !.aborted = TRUE]
  /\ UNCHANGED notPipeline
  /\ UNCHANGED <<config, stageIndex, currentInput, pending, bodyCalls, bodyFails,
                 condSkipped, hookThrew, abortCalled>>

\* mutant: the wave is joined as soon as one of its calls is fulfilled
WaveFulfilledAny == \E s \in Range(executable) : task[s].pc = "fulfilled"

\* Promise.all resolves when every call of the wave is fulfilled
WaveFulfilled == \A s \in Range(executable) : task[s].pc = "fulfilled"

\* Promise.all resolved
\* mutant: the stages of the wave stay in the pending set
ParJoinKeepsPending ==
  /\ epc = "await"
  /\ options.parallel
  /\ WaveFulfilled
  /\ pending' = pending
  /\ currentInput' = CarriedValue(executable, [s \in Range(executable) |-> task[s].result])
  /\ IF ctx.aborted
     THEN CallEndHook
     ELSE epc' = "loop" /\ UNCHANGED hookCount
  /\ UNCHANGED notPipeline
  /\ UNCHANGED <<config, ctx, outcome, stageIndex, executable, task, bodyCalls,
                 bodyFails, condSkipped, hookThrew, abortCalled, settleOrder>>

ParJoin ==
  /\ epc = "await"
  /\ options.parallel
  /\ WaveFulfilled
  /\ pending' = pending \ Range(executable)
  /\ currentInput' = CarriedValue(executable, [s \in Range(executable) |-> task[s].result])
  /\ IF ctx.aborted
     THEN CallEndHook
     ELSE epc' = "loop" /\ UNCHANGED hookCount
  /\ UNCHANGED notPipeline
  /\ UNCHANGED <<config, ctx, outcome, stageIndex, executable, task, bodyCalls,
                 bodyFails, condSkipped, hookThrew, abortCalled, settleOrder>>

(***************************************************************************)
(* LifecycleManager (scaffolds/nexoc/src/lifecycle/index.ts).  The contexts *)
(* it builds are objects: `contexts` holds them in the order they were      *)
(* built, and this.context, lastContext and the returned context are        *)
(* references into it.  The data value is kept as the sequence of what was  *)
(* done to it; the meta record is passed along untouched and left out.      *)
(***************************************************************************)
LIFECYCLE_PHASES ==
  <<"init", "validate", "prepare", "execute",
    "transform", "generate", "finalize", "cleanup">>

PhaseNames == Range(LIFECYCLE_PHASES)

\* mutant: a phase that is not in the table counts as the first phase
IndexOfLenient(phase) ==
  IF phase \in PhaseNames
  THEN CHOOSE i \in 1..Len(LIFECYCLE_PHASES) : LIFECYCLE_PHASES[i] = phase
  ELSE 1

\* LIFECYCLE_PHASES.indexOf(phase), 1-based, 0 when the phase is not in the table
IndexOf(phase) ==
  IF phase \in PhaseNames
  THEN CHOOSE i \in 1..Len(LIFECYCLE_PHASES) : LIFECYCLE_PHASES[i] = phase
  ELSE 0

InitialData == <<>>
StaleData == << <<"stale", "">> >>
\* what the transform callback returns for (data, phase)
Transform(d, phase) == Append(d, <<"transform", phase>>)
\* what a listener of lifecycle:<phase> puts in ctx.data
ListenerData(d, phase) == Append(d, <<"listener", phase>>)

Reasons == {"undefined", "user"}

NoRunError == <<>>
InvalidPhaseError == <<"InvalidPhase">>
ListenerError(phase) == <<"ListenerError", phase>>
TransformError(phase) == <<"TransformError", phase>>

createLifecycleContext(phase, d) ==
  [phase |-> phase, data |-> d, aborted |-> FALSE, abortReason |-> "undefined"]

StartIndex == IndexOf(runOptions.startPhase)
EndIndex == IndexOf(runOptions.endPhase)

\* mutant: abort sets the flag and forgets the reason
SetAbortedFlagOnly(cs, c, reason) ==
  IF c # 0 THEN [cs EXCEPT ![c].aborted = TRUE] ELSE cs

\* abort(reason): `if (this.context) { aborted = true; abortReason = reason }`
SetAborted(cs, c, reason) ==
  IF c # 0
  THEN [cs EXCEPT ![c].aborted = TRUE, ![c].abortReason = reason]
  ELSE cs

\* mutant: the loop stops one phase short of endPhase
NextPhaseExclusive(i) ==
  LET J == {j \in i..(EndIndex - 1) : LIFECYCLE_PHASES[j] \notin runOptions.skipPhases}
  IN  IF J = {} THEN 0 ELSE CHOOSE j \in J : \A k \in J : j <= k

\* mutant: a range given backwards is walked from startPhase on all the same
NextPhaseBackwards(i) ==
  LET last == IF StartIndex > EndIndex THEN StartIndex ELSE EndIndex
      J == {j \in i..last : LIFECYCLE_PHASES[j] \notin runOptions.skipPhases}
  IN  IF J = {} THEN 0 ELSE CHOOSE j \in J : \A k \in J : j <= k

\* mutant: skipPhases is ignored
NextPhaseNoSkip(i) == IF i <= EndIndex THEN i ELSE 0

\* the for loop of run from index i on: the next phase of the range that is
\* not in skipPhases, 0 when the loop ends
NextPhase(i) ==
  LET J == {j \in i..EndIndex : LIFECYCLE_PHASES[j] \notin runOptions.skipPhases}
  IN  IF J = {} THEN 0 ELSE CHOOSE j \in J : \A k \in J : j <= k

\* run from loop index i with data d and lastContext `last`, up to the
\* dispatch of the next phase's hook (runPhase) or to its return
LoopFrom(i, d, last) ==
  LET j == NextPhase(i) IN
  /\ data' = d
  /\ lastContext' = last
  /\ IF j = 0
     THEN /\ rpc' = "resolved"
          /\ IF last # 0
             THEN /\ returned' = last
                  /\ contexts' = contexts
             ELSE /\ returned' = Len(contexts) + 1
                  /\ contexts' = Append(contexts,
                                        createLifecycleContext("init", InitialData))
          /\ UNCHANGED <<phaseIndex, currentPhase, context, dispatched, received>>
     ELSE /\ rpc' = "hook"
          /\ phaseIndex' = j
          /\ currentPhase' = LIFECYCLE_PHASES[j]
          /\ contexts' = Append(contexts,
                                createLifecycleContext(LIFECYCLE_PHASES[j], d))
          /\ context' = Len(contexts) + 1
          /\ dispatched' = Append(dispatched, LIFECYCLE_PHASES[j])
          /\ received' = Append(received, d)
          /\ UNCHANGED returned

\* run(initialData, options) is called
Run ==
  /\ rpc = "idle"
  /\ IF StartIndex = 0 \/ EndIndex = 0
     THEN /\ rpc' = "rejected"
          /\ runError' = InvalidPhaseError
          /\ UNCHANGED <<currentPhase, context, contexts, lastContext, data,
                         phaseIndex, returned, dispatched, received>>
     ELSE /\ LoopFrom(StartIndex, InitialData, 0)
          /\ UNCHANGED runError
  /\ UNCHANGED <<runOptions, transformed, settledHooks, abortLog, writes, before>>
  /\ UNCHANGED notLifecycle

\* `await this.hooks.callHook(hookName, this.context)` settled: runPhase
\* returns this.context and run goes on after `lastContext = await runPhase`
RunPhaseDone ==
  /\ rpc = "hook"
  /\ settledHooks' = Append(settledHooks, LIFECYCLE_PHASES[phaseIndex])
  /\ \/ /\ IF contexts[context].aborted
           THEN /\ rpc' = "resolved"
                /\ returned' = context
                /\ lastContext' = context
                /\ UNCHANGED <<data, phaseIndex, currentPhase, context, contexts,
                               dispatched, received, transformed>>
           ELSE IF runOptions.transform /\ phaseIndex < EndIndex
           THEN /\ rpc' = "transform"
                /\ lastContext' = context
                /\ transformed' = Append(transformed, LIFECYCLE_PHASES[phaseIndex])
                /\ UNCHANGED <<data, phaseIndex, currentPhase, context, contexts,
                               returned, dispatched, received>>
           ELSE /\ LoopFrom(phaseIndex + 1, contexts[context].data, context)
                /\ UNCHANGED transformed
        /\ UNCHANGED runError
     \/ \* a listener threw
        /\ rpc' = "rejected"
        /\ runError' = ListenerError(LIFECYCLE_PHASES[phaseIndex])
        /\ UNCHANGED <<data, phaseIndex, currentPhase, context, contexts,
                       lastContext, returned, dispatched, received, transformed>>
  /\ UNCHANGED <<runOptions, abortLog, writes, before>>
  /\ UNCHANGED notLifecycle

\* `await transform(lastContext.data, phase)` settled
TransformDone ==
  /\ rpc = "transform"
  /\ \/ /\ LoopFrom(phaseIndex + 1,
                    Transform(contexts[lastContext].data, LIFECYCLE_PHASES[phaseIndex]),
                    lastContext)
        /\ UNCHANGED runError
     \/ \* the callback threw
        /\ rpc' = "rejected"
        /\ runError' = TransformError(LIFECYCLE_PHASES[phaseIndex])
        /\ UNCHANGED <<data, phaseIndex, currentPhase, context, contexts,
                       lastContext, returned, dispatched, received>>
  /\ UNCHANGED <<runOptions, transformed, settledHooks, abortLog, writes, before>>
  /\ UNCHANGED notLifecycle

\* abort(reason), called by a listener or by the transform callback while run
\* is suspended
LifecycleAbort ==
  /\ rpc \in {"hook", "transform"}
  /\ Len(abortLog) < MaxAborts
  /\ \E reason \in Reasons :
       /\ contexts' = SetAborted(contexts, context, reason)
       /\ abortLog' = Append(abortLog, [phase |-> currentPhase, during |-> rpc,
                                        reason |-> reason])
  /\ UNCHANGED <<runOptions, currentPhase, context, lastContext, data, phaseIndex,
                 rpc, returned, runError, dispatched, received, transformed,
                 settledHooks, writes, before>>
  /\ UNCHANGED notLifecycle

\* a listener of the dispatched hook replaces ctx.data
ListenerWrite ==
  /\ rpc = "hook"
  /\ writes < MaxListenerWrites
  /\ contexts' = [contexts EXCEPT
                    ![context].data = ListenerData(@, LIFECYCLE_PHASES[phaseIndex])]
  /\ writes' = writes + 1
  /\ UNCHANGED <<runOptions, currentPhase, context, lastContext, data, phaseIndex,
                 rpc, returned, runError, dispatched, received, transformed,
                 settledHooks, abortLog, before>>
  /\ UNCHANGED notLifecycle

\* no stage list operation has been called
EditIdle ==
  /\ stageList = <<>>
  /\ lastCall = <<>>
  /\ created = 0

\* no composed pipeline
ComposeIdle ==
  /\ children = <<>>
  /\ kpc = "init"
  /\ kIndex = 1
  /\ kInput = InitialInput
  /\ kCtx = createPipelineContext
  /\ kTask = IdleTask
  /\ kOutcome = NoOutcome
  /\ kLog = <<>>

\* no execute call
OverlapIdle ==
  /\ runContexts = <<>>
  /\ runCtx = <<>>
  /\ runPc = <<>>
  /\ runIndex = <<>>
  /\ runInput = <<>>
  /\ runTask = <<>>
  /\ runOutcome = <<>>
  /\ runLog = <<>>

\* no command executed
CommandIdle ==
  /\ command = <<>>
  /\ parsed = <<>>
  /\ cpc = "idle"
  /\ cmdError = <<>>
  /\ cmdOutcome = <<>>
  /\ cmdLog = <<>>

\* an empty registry
RegistryIdle ==
  /\ commands = <<>>
  /\ aliases = <<>>
  /\ groups = <<>>

\* executeParallel's `const executed = new Set()`
NexocIdle == executed = {}

\* a manager on which run has not been called
LifecycleIdle ==
  /\ runOptions = [startPhase |-> "init", endPhase |-> "cleanup",
                   skipPhases |-> {}, transform |-> FALSE]
  /\ currentPhase = "null"
  /\ context = 0
  /\ contexts = <<>>
  /\ lastContext = 0
  /\ data = InitialData
  /\ phaseIndex = 0
  /\ rpc = "idle"
  /\ returned = 0
  /\ runError = NoRunError
  /\ dispatched = <<>>
  /\ received = <<>>
  /\ transformed = <<>>
  /\ settledHooks = <<>>
  /\ abortLog = <<>>
  /\ writes = 0
  /\ before = [currentPhase |-> "null", context |-> 0]

\* a pipeline on which execute has not been called
PipelineIdle ==
  /\ stages = <<>>
  /\ dependencies = [s \in AllNames |-> {}]
  /\ hasCondition = [s \in AllNames |-> FALSE]
  /\ skippable = [s \in AllNames |-> FALSE]
  /\ options = [parallel |-> FALSE, onError |-> "undefined", maxRetries |-> <<>>]
  /\ ctx = createPipelineContext
  /\ epc = "init"
  /\ outcome = NoOutcome
  /\ stageIndex = 1
  /\ currentInput = InitialInput
  /\ pending = {}
  /\ executable = <<>>
  /\ task = [s \in AllNames |-> IdleTask]
  /\ bodyCalls = [s \in AllNames |-> 0]
  /\ bodyFails = [s \in AllNames |-> 0]
  /\ condSkipped = {}
  /\ hookCount = [k \in HookKeys |-> 0]
  /\ hookThrew = {}
  /\ abortCalled = FALSE
  /\ settleOrder = <<>>

\* the options run is called with, and the state a manager can be in when it
\* is called: fresh, or with the phase and context a former runPhase left
PhaseArguments == PhaseNames \cup {"bogus"}
SkipSets == {S \in SUBSET PhaseNames : Cardinality(S) <= MaxSkipPhases}
StalePhases == {"cleanup"}

LifecycleInit ==
  /\ PipelineIdle
  /\ EditIdle /\ ComposeIdle /\ OverlapIdle /\ CommandIdle
  /\ RegistryIdle /\ NexocIdle
  /\ runOptions \in [startPhase : PhaseArguments, endPhase : PhaseArguments,
                     skipPhases : SkipSets, transform : BOOLEAN]
  /\ \/ /\ currentPhase = "null"
        /\ context = 0
        /\ contexts = <<>>
     \/ \E p \in StalePhases :
          /\ currentPhase = p
          /\ context = 1
          /\ contexts = <<createLifecycleContext(p, StaleData)>>
  /\ before = [currentPhase |-> currentPhase, context |-> context]
  /\ lastContext = 0
  /\ data = InitialData
  /\ phaseIndex = 0
  /\ rpc = "idle"
  /\ returned = 0
  /\ runError = NoRunError
  /\ dispatched = <<>>
  /\ received = <<>>
  /\ transformed = <<>>
  /\ settledHooks = <<>>
  /\ abortLog = <<>>
  /\ writes = 0

LifecycleNext ==
  \/ Run
  \/ RunPhaseDone
  \/ TransformDone
  \/ LifecycleAbort
  \/ ListenerWrite

LifecycleSpec == LifecycleInit /\ [][LifecycleNext]_vars

(***************************************************************************)
(* The stage list operations of Pipeline: addStage, insertStage,            *)
(* insertBefore, insertAfter, removeStage, replaceStage.  A stage object is *)
(* its name and an identity, so that two stages of one name are told apart. *)
(***************************************************************************)
EditNames == {"A", "B"}

\* mutant: the last stage of that name is found
FindLastIndex(list, name) ==
  LET M == {i \in DOMAIN list : list[i].name = name}
  IN  IF M = {} THEN -1 ELSE (CHOOSE i \in M : \A k \in M : i >= k) - 1

\* this.stages.findIndex(s => s.name === name): 0-based, -1 when none
FindIndex(list, name) ==
  LET M == {i \in DOMAIN list : list[i].name = name}
  IN  IF M = {} THEN -1 ELSE (CHOOSE i \in M : \A k \in M : i <= k) - 1

\* this.stages.push(stage)
addStage(list, stage) == Append(list, stage)

\* this.stages.splice(index, 0, stage): a start beyond the end appends, a
\* negative start counts from the end
insertStage(list, index, stage) ==
  LET len == Len(list)
      start == IF index > len THEN len
               ELSE IF index < 0 THEN (IF len + index < 0 THEN 0 ELSE len + index)
               ELSE index
  IN  SubSeq(list, 1, start) \o <<stage>> \o SubSeq(list, start + 1, len)

insertBefore(list, targetName, stage) ==
  LET index == FindIndex(list, targetName)
  IN  IF index # -1 THEN insertStage(list, index, stage) ELSE list

insertAfter(list, targetName, stage) ==
  LET index == FindIndex(list, targetName)
  IN  IF index # -1 THEN insertStage(list, index + 1, stage) ELSE list

\* this.stages.splice(index, 1); the list and the value returned
removeStage(list, name) ==
  LET index == FindIndex(list, name)
  IN  IF index # -1
      THEN [list |-> SubSeq(list, 1, index) \o SubSeq(list, index + 2, Len(list)),
            returned |-> TRUE]
      ELSE [list |-> list, returned |-> FALSE]

\* this.stages[index] = newStage; the list and the value returned
replaceStage(list, name, newStage) ==
  LET index == FindIndex(list, name)
  IN  IF index # -1
      THEN [list |-> [list EXCEPT ![index + 1] = newStage], returned |-> TRUE]
      ELSE [list |-> list, returned |-> FALSE]

\* the stage object the caller hands over: any name, a new identity
NewStage(name) == [name |-> name, id |-> created + 1]

Called(op, name, stage, index, result) ==
  [op |-> op, name |-> name, stage |-> stage, index |-> index,
   returned |-> result, prior |-> stageList]

AddStage ==
  /\ created < MaxStageObjects
  /\ \E n \in EditNames :
       /\ stageList' = addStage(stageList, NewStage(n))
       /\ lastCall' = Called("addStage", "", NewStage(n), 0, "this")
  /\ created' = created + 1
  /\ UNCHANGED notEdit

InsertStage ==
  /\ created < MaxStageObjects
  /\ \E n \in EditNames, index \in -1..(Len(stageList) + 1) :
       /\ stageList' = insertStage(stageList, index, NewStage(n))
       /\ lastCall' = Called("insertStage", "", NewStage(n), index, "this")
  /\ created' = created + 1
  /\ UNCHANGED notEdit

InsertBefore ==
  /\ created < MaxStageObjects
  /\ \E n, target \in EditNames :
       /\ stageList' = insertBefore(stageList, target, NewStage(n))
       /\ lastCall' = Called("insertBefore", target, NewStage(n), 0, "this")
  /\ created' = created + 1
  /\ UNCHANGED notEdit

InsertAfter ==
  /\ created < MaxStageObjects
  /\ \E n, target \in EditNames :
       /\ stageList' = insertAfter(stageList, target, NewStage(n))
       /\ lastCall' = Called("insertAfter", target, NewStage(n), 0, "this")
  /\ created' = created + 1
  /\ UNCHANGED notEdit

RemoveStage ==
  /\ \E target \in EditNames :
       LET r == removeStage(stageList, target) IN
       /\ stageList' = r.list
       /\ lastCall' = Called("removeStage", target, <<>>, 0, r.returned)
  /\ UNCHANGED created
  /\ UNCHANGED notEdit

ReplaceStage ==
  /\ created < MaxStageObjects
  /\ \E n, target \in EditNames :
       LET r == replaceStage(stageList, target, NewStage(n)) IN
       /\ stageList' = r.list
       /\ lastCall' = Called("replaceStage", target, NewStage(n), 0, r.returned)
  /\ created' = created + 1
  /\ UNCHANGED notEdit

EditInit ==
  /\ PipelineIdle /\ LifecycleIdle /\ ComposeIdle /\ OverlapIdle /\ CommandIdle
  /\ RegistryIdle /\ NexocIdle
  /\ EditIdle

EditNext ==
  \/ AddStage
  \/ InsertStage
  \/ InsertBefore
  \/ InsertAfter
  \/ RemoveStage
  \/ ReplaceStage

EditSpec == EditInit /\ [][EditNext]_vars

(***************************************************************************)
(* composePipelines and a run of the pipeline it returns.  The composed     *)
(* pipeline is created with { name } alone: sequential, no error policy,    *)
(* stages without condition and dependencies.  A child pipeline is a black  *)
(* box: its execute resolves with { result, context } or rejects.  The      *)
(* child at list position i (1-based here, index i - 1 in the source) is an *)
(* uninterpreted function of its input.                                     *)
(***************************************************************************)
ChildNames == {"P", "Q"}

\* `pipeline:${pipeline.name}`
ComposedStageName(i) == <<"pipeline:", children[i]>>

\* `pipeline:${index}:result`, index counted from 0
SharedKey(index) == <<"pipeline:", index, ":result">>

ChildError(i) == <<"ChildError", i>>

\* what `await pipeline.execute(input)` resolves with: the child's result and
\* the child's own context, whose aborted flag the child may have set
ChildExecute(i, input, childAborted) ==
  [result |-> Append(input, <<i, childAborted>>),
   context |-> [createPipelineContext EXCEPT !.aborted = childAborted]]

SetShared(c, key, v) ==
  [c EXCEPT !.shared =
     [x \in (DOMAIN c.shared) \cup {key} |-> IF x = key THEN v ELSE c.shared[x]]]

\* mutant: the wrapping stage also takes the child's aborted flag over
WrapperCopiesAborted(c, index, child) ==
  [ctx |-> [SetShared(c, SharedKey(index), child.result)
              EXCEPT !.aborted = child.context.aborted],
   result |-> child.result]

\* the stage body after `await pipeline.execute(input)`: it keeps the result
\* and drops the child's context
Wrapper(c, index, child) ==
  [ctx |-> SetShared(c, SharedKey(index), child.result),
   result |-> child.result]

\* execute's catch block
ComposeReject(error) ==
  /\ kpc' = "rejected"
  /\ kOutcome' = [result |-> <<>>, error |-> error]
  /\ kCtx' = [kCtx EXCEPT !.aborted = TRUE]

ComposeExecute ==
  /\ kpc = "init"
  /\ kpc' = "start"
  /\ kCtx' = createPipelineContext
  /\ UNCHANGED <<children, kIndex, kInput, kTask, kOutcome, kLog>>
  /\ UNCHANGED notCompose

\* pipeline:start settled; a throwing listener rejects outside the try block
ComposeStartHookDone ==
  /\ kpc = "start"
  /\ \/ /\ kpc' = "loop"
        /\ kInput' = InitialInput
        /\ kIndex' = 1
        /\ UNCHANGED kOutcome
     \/ /\ kpc' = "rejected"
        /\ kOutcome' = [result |-> <<>>, error |-> HookError("pipeline:start", "")]
        /\ UNCHANGED <<kInput, kIndex>>
  /\ UNCHANGED <<children, kCtx, kTask, kLog>>
  /\ UNCHANGED notCompose

\* executeSequential: the loop test, and executeStage up to the dispatch of
\* pipeline:stage:before
ComposeSeqIter ==
  /\ kpc = "loop"
  /\ IF kIndex > Len(children) \/ kCtx.aborted
     THEN /\ kpc' = "end"
          /\ UNCHANGED <<kCtx, kTask>>
     ELSE /\ kpc' = "await"
          /\ kCtx' = [kCtx EXCEPT !.currentStageIndex = kIndex - 1]
          /\ kTask' = [IdleTask EXCEPT !.pc = "stage:before", !.input = kInput]
  /\ UNCHANGED <<children, kIndex, kInput, kOutcome, kLog>>
  /\ UNCHANGED notCompose

\* pipeline:stage:before settled: the stage body calls pipeline.execute(input)
ComposeBeforeHookDone ==
  /\ kpc = "await"
  /\ kTask.pc = "stage:before"
  /\ \/ /\ kTask' = [kTask EXCEPT !.pc = "body"]
        /\ kLog' = Append(kLog, [index |-> kIndex, input |-> kTask.input,
                                 settled |-> "pending", result |-> <<>>,
                                 childAborted |-> FALSE])
        /\ UNCHANGED <<kpc, kOutcome, kCtx>>
     \/ /\ kTask' = [kTask EXCEPT !.pc = "rejected",
                                  !.error = HookError("stage:before", kIndex)]
        /\ ComposeReject(HookError("stage:before", kIndex))
        /\ UNCHANGED kLog
  /\ UNCHANGED <<children, kIndex, kInput>>
  /\ UNCHANGED notCompose

\* the child's execute settled: the body stores and returns the result and
\* executeStage records it, or the rejection reaches executeStage's catch
ComposeChildDone ==
  /\ kpc = "await"
  /\ kTask.pc = "body"
  /\ \/ \E childAborted \in BOOLEAN :
          LET child == ChildExecute(kIndex, kTask.input, childAborted)
              w == Wrapper(kCtx, kIndex - 1, child)
          IN  /\ kCtx' = SetResult(w.ctx, ComposedStageName(kIndex), w.result)
              /\ kTask' = [kTask EXCEPT !.pc = "stage:after", !.result = w.result]
              /\ kLog' = [kLog EXCEPT ![Len(kLog)] =
                            [@ EXCEPT !.settled = "resolved",
                                      !.result = child.result,
                                      !.childAborted = childAborted]]
     \/ /\ kTask' = [kTask EXCEPT !.pc = "stage:error", !.error = ChildError(kIndex)]
        /\ kLog' = [kLog EXCEPT ![Len(kLog)] = [@ EXCEPT !.settled = "rejected"]]
        /\ UNCHANGED kCtx
  /\ UNCHANGED <<children, kpc, kIndex, kInput, kOutcome>>
  /\ UNCHANGED notCompose

\* pipeline:stage:after settled: executeStage returns the result and the loop
\* takes it as currentInput
ComposeAfterHookDone ==
  /\ kpc = "await"
  /\ kTask.pc = "stage:after"
  /\ \/ /\ kTask' = [kTask EXCEPT !.pc = "fulfilled"]
        /\ kInput' = kTask.result
        /\ kIndex' = kIndex + 1
        /\ kpc' = "loop"
     \/ /\ kTask' = [kTask EXCEPT !.pc = "stage:error",
                                  !.error = HookError("stage:after", kIndex)]
        /\ UNCHANGED <<kInput, kIndex, kpc>>
  /\ UNCHANGED <<children, kCtx, kOutcome, kLog>>
  /\ UNCHANGED notCompose

\* pipeline:stage:error settled: with no error policy the error is thrown on
ComposeErrorHookDone ==
  /\ kpc = "await"
  /\ kTask.pc = "stage:error"
  /\ \/ /\ kTask' = [kTask EXCEPT !.pc = "rejected"]
        /\ ComposeReject(kTask.error)
     \/ /\ kTask' = [kTask EXCEPT !.pc = "rejected",
                                  !.error = HookError("stage:error", kIndex)]
        /\ ComposeReject(HookError("stage:error", kIndex))
  /\ UNCHANGED <<children, kIndex, kInput, kLog>>
  /\ UNCHANGED notCompose

ComposeEndHookDone ==
  /\ kpc = "end"
  /\ \/ /\ kpc' = "resolved"
        /\ kOutcome' = [result |-> kInput, error |-> NoError]
        /\ UNCHANGED kCtx
     \/ ComposeReject(HookError("pipeline:end", ""))
  /\ UNCHANGED <<children, kIndex, kInput, kTask, kLog>>
  /\ UNCHANGED notCompose

\* Pipeline.abort(ctx) by a listener that holds the composed run's context
ComposeAbort ==
  /\ kpc \in {"start", "await", "end"}
  /\ ~kCtx.aborted
  /\ kCtx' = [kCtx EXCEPT !.aborted = TRUE]
  /\ UNCHANGED <<children, kpc, kIndex, kInput, kTask, kOutcome, kLog>>
  /\ UNCHANGED notCompose

\* composePipelines(hooks, name, pipelines)
ComposeInit ==
  /\ PipelineIdle /\ LifecycleIdle /\ EditIdle /\ OverlapIdle /\ CommandIdle
  /\ RegistryIdle /\ NexocIdle
  /\ children \in UNION {[1..n -> ChildNames] : n \in 0..MaxChildren}
  /\ kpc = "init"
  /\ kIndex = 1
  /\ kInput = InitialInput
  /\ kCtx = createPipelineContext
  /\ kTask = IdleTask
  /\ kOutcome = NoOutcome
  /\ kLog = <<>>

ComposeNext ==
  \/ ComposeExecute
  \/ ComposeStartHookDone
  \/ ComposeSeqIter
  \/ ComposeBeforeHookDone
  \/ ComposeChildDone
  \/ ComposeAfterHookDone
  \/ ComposeErrorHookDone
  \/ ComposeEndHookDone
  \/ ComposeAbort

ComposeSpec == ComposeInit /\ [][ComposeNext]_vars

(***************************************************************************)
(* Several execute calls on one Pipeline, each suspended at its awaits      *)
(* while the others advance.  Contexts are objects of a heap, runContexts,  *)
(* and runCtx[r] is the reference that call r holds.  The pipeline runs in  *)
(* sequential mode, its listeners do not throw, and every stage body writes *)
(* ctx.shared under its own name.  runLog[r].own is the context call r      *)
(* would have built had it run alone (the same writes, made to a copy no    *)
(* other call can reach), and runLog[r].diverged records a dependency or    *)
(* abort check whose answer on the held context differs from the answer on  *)
(* that copy.                                                               *)
(***************************************************************************)
Runs == 1..MaxRuns

RunInput(r) == <<r>>

IdleRunTask == [retryCount |-> 0, result |-> <<>>, error |-> NoError]

\* mutant: one context object is kept by the pipeline and handed to every call
NewContextShared(heap) ==
  IF heap = <<>> THEN [heap |-> <<createPipelineContext>>, ref |-> 1]
  ELSE [heap |-> heap, ref |-> 1]

\* `const ctx = createPipelineContext(this.options.name)`: a new object
NewContext(heap) ==
  [heap |-> Append(heap, createPipelineContext), ref |-> Len(heap) + 1]

Held(r) == runContexts[runCtx[r]]
Own(r) == runLog[r].own

\* call r moves to pc, its context object becomes hc and its own copy oc
OverlapStep(r, pc, hc, oc, differs) ==
  /\ runPc' = [runPc EXCEPT ![r] = pc]
  /\ runContexts' = [runContexts EXCEPT ![runCtx[r]] = hc]
  /\ runLog' = [runLog EXCEPT ![r] =
                  [own |-> oc, diverged |-> @.diverged \/ differs]]

\* execute's catch block: ctx.aborted = true; throw error
OverlapReject(r, error, differs) ==
  /\ OverlapStep(r, "rejected", [Held(r) EXCEPT !.aborted = TRUE],
                 [Own(r) EXCEPT !.aborted = TRUE], differs)
  /\ runOutcome' = [runOutcome EXCEPT ![r] = [result |-> <<>>, error |-> error]]

\* executeStage past the condition: checkDependencies, then the dispatch of
\* pipeline:stage:before; `earlier` is a difference found before in the step
OverlapAfterCondition(r, s, earlier) ==
  LET differs == \/ earlier
                 \/ CheckDependencies(s, Held(r)) # CheckDependencies(s, Own(r))
  IN  IF ~CheckDependencies(s, Held(r))
      THEN OverlapReject(r, UnmetError(s), differs)
      ELSE /\ OverlapStep(r, "stage:before", Held(r), Own(r), differs)
           /\ UNCHANGED runOutcome

\* executeStage from its entry
OverlapStartStage(r, s, earlier) ==
  IF hasCondition[s]
  THEN /\ OverlapStep(r, "cond", Held(r), Own(r), earlier)
       /\ UNCHANGED runOutcome
  ELSE OverlapAfterCondition(r, s, earlier)

\* executeStage returned v to the loop of executeSequential
OverlapReturn(r, v) ==
  /\ runInput' = [runInput EXCEPT ![r] = v]
  /\ runIndex' = [runIndex EXCEPT ![r] = @ + 1]
  /\ runTask' = [runTask EXCEPT ![r] = IdleRunTask]

OverlapExecute(r) ==
  /\ runPc[r] = "init"
  /\ LET n == NewContext(runContexts)
     IN  /\ runContexts' = n.heap
         /\ runCtx' = [runCtx EXCEPT ![r] = n.ref]
  /\ runPc' = [runPc EXCEPT ![r] = "start"]
  /\ UNCHANGED <<runIndex, runInput, runTask, runOutcome, runLog>>
  /\ UNCHANGED pipelineVars
  /\ UNCHANGED notOverlap

OverlapStartHookDone(r) ==
  /\ runPc[r] = "start"
  /\ runPc' = [runPc EXCEPT ![r] = "loop"]
  /\ runInput' = [runInput EXCEPT ![r] = RunInput(r)]
  /\ runIndex' = [runIndex EXCEPT ![r] = 1]
  /\ UNCHANGED <<runContexts, runCtx, runTask, runOutcome, runLog>>
  /\ UNCHANGED pipelineVars
  /\ UNCHANGED notOverlap

\* executeSequential: `if (ctx.aborted) break`, then executeStage
OverlapSeqIter(r) ==
  /\ runPc[r] = "loop"
  /\ LET differs == Held(r).aborted # Own(r).aborted
     IN  IF runIndex[r] > Len(stages) \/ Held(r).aborted
         THEN /\ OverlapStep(r, "end", Held(r), Own(r), differs)
              /\ UNCHANGED runOutcome
         ELSE OverlapStartStage(r, stages[runIndex[r]], differs)
  /\ UNCHANGED <<runCtx, runIndex, runInput, runTask>>
  /\ UNCHANGED pipelineVars
  /\ UNCHANGED notOverlap

OverlapConditionDone(r) ==
  /\ runPc[r] = "cond"
  /\ \E shouldRun \in BOOLEAN :
       IF shouldRun
       THEN OverlapAfterCondition(r, stages[runIndex[r]], FALSE)
       ELSE /\ OverlapStep(r, "stage:skip", Held(r), Own(r), FALSE)
            /\ UNCHANGED runOutcome
  /\ UNCHANGED <<runCtx, runIndex, runInput, runTask>>
  /\ UNCHANGED pipelineVars
  /\ UNCHANGED notOverlap

OverlapSkipHookDone(r) ==
  /\ runPc[r] = "stage:skip"
  /\ LET s == stages[runIndex[r]]
     IN  OverlapStep(r, "loop", AddSkipped(Held(r), s), AddSkipped(Own(r), s), FALSE)
  /\ OverlapReturn(r, runInput[r])
  /\ UNCHANGED <<runCtx, runOutcome>>
  /\ UNCHANGED pipelineVars
  /\ UNCHANGED notOverlap

OverlapBeforeHookDone(r) ==
  /\ runPc[r] = "stage:before"
  /\ runPc' = [runPc EXCEPT ![r] = "body"]
  /\ UNCHANGED <<runContexts, runCtx, runIndex, runInput, runTask, runOutcome,
                 runLog>>
  /\ UNCHANGED pipelineVars
  /\ UNCHANGED notOverlap

\* `await stage.execute(input, ctx)` settled
OverlapBodyDone(r) ==
  /\ runPc[r] = "body"
  /\ LET s == stages[runIndex[r]]
         result == StageFn(s, runInput[r])
     IN  \/ /\ OverlapStep(r, "stage:after",
                           SetResult(SetShared(Held(r), s, r), s, result),
                           SetResult(SetShared(Own(r), s, r), s, result), FALSE)
            /\ runTask' = [runTask EXCEPT ![r].result = result]
         \/ /\ OverlapStep(r, "stage:error", Held(r), Own(r), FALSE)
            /\ runTask' = [runTask EXCEPT ![r].error =
                             StageError(s, runTask[r].retryCount)]
  /\ UNCHANGED <<runCtx, runIndex, runInput, runOutcome>>
  /\ UNCHANGED pipelineVars
  /\ UNCHANGED notOverlap

OverlapAfterHookDone(r) ==
  /\ runPc[r] = "stage:after"
  /\ runPc' = [runPc EXCEPT ![r] = "loop"]
  /\ OverlapReturn(r, runTask[r].result)
  /\ UNCHANGED <<runContexts, runCtx, runOutcome, runLog>>
  /\ UNCHANGED pipelineVars
  /\ UNCHANGED notOverlap

\* the catch block of executeStage, after pipeline:stage:error
OverlapErrorHookDone(r) ==
  /\ runPc[r] = "stage:error"
  /\ LET s == stages[runIndex[r]]
         policy == ErrorPolicy(s, runTask[r].retryCount)
     IN  CASE policy = "retry" ->
                /\ OverlapStartStage(r, s, FALSE)
                /\ runTask' = [runTask EXCEPT ![r] =
                                 [IdleRunTask EXCEPT !.retryCount =
                                    runTask[r].retryCount + 1]]
                /\ UNCHANGED <<runIndex, runInput>>
           [] policy = "skip" ->
                /\ OverlapStep(r, "loop", AddSkipped(Held(r), s),
                               AddSkipped(Own(r), s), FALSE)
                /\ OverlapReturn(r, runInput[r])
                /\ UNCHANGED runOutcome
           [] OTHER ->
                /\ OverlapReject(r, runTask[r].error, FALSE)
                /\ UNCHANGED <<runIndex, runInput, runTask>>
  /\ UNCHANGED runCtx
  /\ UNCHANGED pipelineVars
  /\ UNCHANGED notOverlap

OverlapEndHookDone(r) ==
  /\ runPc[r] = "end"
  /\ runPc' = [runPc EXCEPT ![r] = "resolved"]
  /\ runOutcome' = [runOutcome EXCEPT ![r] =
                      [result |-> runInput[r], error |-> NoError]]
  /\ UNCHANGED <<runContexts, runCtx, runIndex, runInput, runTask, runLog>>
  /\ UNCHANGED pipelineVars
  /\ UNCHANGED notOverlap

\* Pipeline.abort(ctx) with the context of call r
OverlapAbort(r) ==
  /\ runPc[r] \in {"start", "cond", "stage:skip", "stage:before", "body",
                   "stage:after", "stage:error", "end"}
  /\ ~Held(r).aborted
  /\ OverlapStep(r, runPc[r], [Held(r) EXCEPT !.aborted = TRUE],
                 [Own(r) EXCEPT !.aborted = TRUE], FALSE)
  /\ UNCHANGED <<runCtx, runIndex, runInput, runTask, runOutcome>>
  /\ UNCHANGED pipelineVars
  /\ UNCHANGED notOverlap

OverlapInit ==
  /\ LifecycleIdle /\ EditIdle /\ ComposeIdle /\ CommandIdle
  /\ RegistryIdle /\ NexocIdle
  /\ \E n \in 1..MaxOverlapStages : stages = [i \in 1..n |-> StageNamePool[i]]
  /\ dependencies \in [AllNames -> SUBSET Range(stages)]
  /\ hasCondition \in [AllNames -> BOOLEAN]
  /\ skippable \in [AllNames -> BOOLEAN]
  /\ options \in [parallel : {FALSE}, onError : {"undefined", "continue", "retry"},
                  maxRetries : {<<>>, <<1>>}]
  /\ \A s \in AllNames \ Range(stages) :
        dependencies[s] = {} /\ ~hasCondition[s] /\ ~skippable[s]
  /\ options.onError # "continue" => \A s \in AllNames : ~skippable[s]
  /\ options.onError = "retry" <=> options.maxRetries = <<1>>
  /\ options.onError = "retry" => Len(stages) <= MaxRetryStages
  /\ ctx = createPipelineContext
  /\ epc = "init"
  /\ outcome = NoOutcome
  /\ stageIndex = 1
  /\ currentInput = InitialInput
  /\ pending = {}
  /\ executable = <<>>
  /\ task = [s \in AllNames |-> IdleTask]
  /\ bodyCalls = [s \in AllNames |-> 0]
  /\ bodyFails = [s \in AllNames |-> 0]
  /\ condSkipped = {}
  /\ hookCount = [k \in HookKeys |-> 0]
  /\ hookThrew = {}
  /\ abortCalled = FALSE
  /\ settleOrder = <<>>
  /\ runContexts = <<>>
  /\ runCtx = [r \in Runs |-> 0]
  /\ runPc = [r \in Runs |-> "init"]
  /\ runIndex = [r \in Runs |-> 1]
  /\ runInput = [r \in Runs |-> <<>>]
  /\ runTask = [r \in Runs |-> IdleRunTask]
  /\ runOutcome = [r \in Runs |-> NoOutcome]
  /\ runLog = [r \in Runs |-> [own |-> createPipelineContext, diverged |-> FALSE]]

OverlapNext ==
  \/ \E r \in Runs : OverlapExecute(r)
  \/ \E r \in Runs : OverlapStartHookDone(r)
  \/ \E r \in Runs : OverlapSeqIter(r)
  \/ \E r \in Runs : OverlapConditionDone(r)
  \/ \E r \in Runs : OverlapSkipHookDone(r)
  \/ \E r \in Runs : OverlapBeforeHookDone(r)
  \/ \E r \in Runs : OverlapBodyDone(r)
  \/ \E r \in Runs : OverlapAfterHookDone(r)
  \/ \E r \in Runs : OverlapErrorHookDone(r)
  \/ \E r \in Runs : OverlapEndHookDone(r)
  \/ \E r \in Runs : OverlapAbort(r)

OverlapSpec == OverlapInit /\ [][OverlapNext]_vars

(***************************************************************************)
(* CommandExecutor: parseArgs, validate and execute.  A command is its      *)
(* option definitions and argument definitions in declaration order and     *)
(* whether it defines setup and cleanup.  Raw arguments are long options    *)
(* (`--key` and `--key=v`) and positional words; options are of type string *)
(* or boolean, without aliases.  Values are kept as words: "default" for a  *)
(* declared default, "v" for an inline value, "next" for the raw argument a *)
(* string option takes as its value, "true" for a flag, and "undefined".    *)
(***************************************************************************)
OptionKeys == <<"o1", "o2", "o3">>
ArgKeys == <<"a1", "a2">>
Undefined == "undefined"

OptionDefs == [key : Range(OptionKeys), type : {"string", "boolean"},
               required : BOOLEAN, hasDefault : BOOLEAN]
ArgDefs == [key : Range(ArgKeys), required : BOOLEAN, hasDefault : BOOLEAN]
RawTokens ==
  [kind : {"long"}, key : {"o1", "o2"}, value : {Undefined, "v"}]
    \cup {[kind |-> "positional", key |-> "", value |-> "v"]}

\* record[key], undefined when the key was never assigned
Lookup(record, key) == IF key \in DOMAIN record THEN record[key] ELSE Undefined
Assign(record, key, v) ==
  [x \in (DOMAIN record) \cup {key} |-> IF x = key THEN v ELSE record[x]]

DefOf(defs, key) == SelectSeq(defs, LAMBDA d : d.key = key)

\* the declared defaults, assigned in declaration order
RECURSIVE Defaults(_, _, _)
Defaults(defs, i, record) ==
  IF i > Len(defs) THEN record
  ELSE Defaults(defs, i + 1,
                IF defs[i].hasDefault /\ Lookup(record, defs[i].key) = Undefined
                THEN Assign(record, defs[i].key, "default")
                ELSE record)

\* the loop of parseArgs over rawArgs
RECURSIVE ParseLoop(_, _, _, _, _)
ParseLoop(optionsDef, rawArgs, i, opts, positionalArgs) ==
  IF i > Len(rawArgs)
  THEN [options |-> opts, positionalArgs |-> positionalArgs]
  ELSE LET arg == rawArgs[i]
           def == DefOf(optionsDef, arg.key)
       IN  IF arg.kind = "long"
           THEN IF def # <<>>
                THEN IF def[1].type = "boolean"
                     THEN ParseLoop(optionsDef, rawArgs, i + 1,
                                    Assign(opts, arg.key, "true"), positionalArgs)
                     ELSE IF arg.value # Undefined
                     THEN ParseLoop(optionsDef, rawArgs, i + 1,
                                    Assign(opts, arg.key, arg.value),
                                    positionalArgs)
                     ELSE ParseLoop(optionsDef, rawArgs, i + 2,
                                    Assign(opts, arg.key,
                                           IF i + 1 <= Len(rawArgs) THEN "next"
                                           ELSE Undefined),
                                    positionalArgs)
                ELSE ParseLoop(optionsDef, rawArgs, i + 1,
                               Assign(opts, arg.key,
                                      IF arg.value # Undefined THEN arg.value
                                      ELSE "true"),
                               positionalArgs)
           ELSE ParseLoop(optionsDef, rawArgs, i + 1, opts,
                          Append(positionalArgs, arg.value))

\* positionalArgs.forEach: the word at an index goes to the name at that index
RECURSIVE Positional(_, _, _, _)
Positional(argsDef, positionalArgs, i, args) ==
  IF i > Len(positionalArgs) THEN args
  ELSE Positional(argsDef, positionalArgs, i + 1,
                  IF i <= Len(argsDef)
                  THEN Assign(args, argsDef[i].key, positionalArgs[i])
                  ELSE args)

parseArgs(rawArgs, optionsDef, argsDef) ==
  LET loop == ParseLoop(optionsDef, rawArgs, 1, Defaults(optionsDef, 1, <<>>), <<>>)
  IN  [options |-> loop.options,
       args |-> Defaults(argsDef, 1, Positional(argsDef, loop.positionalArgs, 1, <<>>))]

MissingOption(key) == <<"Missing required option", key>>
MissingArgument(key) == <<"Missing required argument", key>>
SetupError == <<"SetupError">>
RunError == <<"RunError">>
CleanupError == <<"CleanupError">>

\* the definitions that validate rejects, in the order it meets them
Rejected(defs, record) ==
  SelectSeq(defs, LAMBDA d : d.required /\ Lookup(record, d.key) = Undefined)

\* mutant: nothing is validated
validateNothing(opts, args, optionsDef, argsDef) == NoError

\* the error validate throws, NoError when it returns
validate(opts, args, optionsDef, argsDef) ==
  IF Rejected(optionsDef, opts) # <<>>
  THEN MissingOption(Rejected(optionsDef, opts)[1].key)
  ELSE IF Rejected(argsDef, args) # <<>>
  THEN MissingArgument(Rejected(argsDef, args)[1].key)
  ELSE NoError

Logged(event, detail) == cmdLog' = Append(cmdLog, <<event, detail>>)

\* mutant: cleanup is skipped when the try block threw
CommandFinallyOnSuccess(settle, error, trail) ==
  IF command.hasCleanup /\ settle = "resolved"
  THEN /\ cpc' = "cleanup"
       /\ cmdOutcome' = [state |-> "pending", settle |-> settle, error |-> error]
       /\ cmdLog' = cmdLog \o trail \o <<<<"cleanup", "">>>>
  ELSE /\ cpc' = settle
       /\ cmdOutcome' = [state |-> settle, settle |-> settle, error |-> error]
       /\ cmdLog' = cmdLog \o trail

\* the finally block: cleanup is called when defined, and the call settles
\* as the try or catch block left it; trail is what the step logged before
CommandFinally(settle, error, trail) ==
  IF command.hasCleanup
  THEN /\ cpc' = "cleanup"
       /\ cmdOutcome' = [state |-> "pending", settle |-> settle, error |-> error]
       /\ cmdLog' = cmdLog \o trail \o <<<<"cleanup", "">>>>
  ELSE /\ cpc' = settle
       /\ cmdOutcome' = [state |-> settle, settle |-> settle, error |-> error]
       /\ cmdLog' = cmdLog \o trail

\* the catch block: command:error is dispatched with the error caught
CommandCatch(error, trail) ==
  /\ cpc' = "command:error"
  /\ cmdError' = error
  /\ cmdLog' = cmdLog \o trail \o <<<<"command:error", error>>>>
  /\ UNCHANGED cmdOutcome

\* execute up to its first await
CommandExecute ==
  /\ cpc = "idle"
  /\ LET p == parseArgs(parsed.rawArgs, command.options, command.args)
         error == validate(p.options, p.args, command.options, command.args)
     IN  /\ parsed' = [parsed EXCEPT !.options = p.options, !.args = p.args]
         /\ IF error # NoError
            THEN /\ cpc' = "rejected"
                 /\ cmdOutcome' = [state |-> "rejected", settle |-> "rejected",
                                   error |-> error]
                 /\ UNCHANGED cmdLog
            ELSE /\ cpc' = "command:before"
                 /\ Logged("command:before", "")
                 /\ UNCHANGED cmdOutcome
  /\ UNCHANGED <<command, cmdError>>
  /\ UNCHANGED notCommand

\* command:before settled; a throwing listener rejects outside the try block
CommandBeforeDone ==
  /\ cpc = "command:before"
  /\ \/ /\ cpc' = IF command.hasSetup THEN "setup" ELSE "run"
        /\ Logged(IF command.hasSetup THEN "setup" ELSE "run", "")
        /\ UNCHANGED cmdOutcome
     \/ /\ cpc' = "rejected"
        /\ cmdOutcome' = [state |-> "rejected", settle |-> "rejected",
                          error |-> HookError("command:before", "")]
        /\ Logged("threw", "command:before")
  /\ UNCHANGED <<command, parsed, cmdError>>
  /\ UNCHANGED notCommand

\* `await command.setup(ctx)` settled
CommandSetupDone ==
  /\ cpc = "setup"
  /\ \/ /\ cpc' = "run"
        /\ Logged("run", "")
        /\ UNCHANGED <<cmdError, cmdOutcome>>
     \/ CommandCatch(SetupError, <<<<"threw", "setup">>>>)
  /\ UNCHANGED <<command, parsed>>
  /\ UNCHANGED notCommand

\* `await command.run(ctx)` settled
CommandRunDone ==
  /\ cpc = "run"
  /\ \/ /\ cpc' = "command:after"
        /\ Logged("command:after", "")
        /\ UNCHANGED <<cmdError, cmdOutcome>>
     \/ CommandCatch(RunError, <<<<"threw", "run">>>>)
  /\ UNCHANGED <<command, parsed>>
  /\ UNCHANGED notCommand

\* command:after settled, inside the try block
CommandAfterDone ==
  /\ cpc = "command:after"
  /\ \/ /\ CommandFinally("resolved", NoError, <<>>)
        /\ UNCHANGED cmdError
     \/ CommandCatch(HookError("command:after", ""), <<<<"threw", "command:after">>>>)
  /\ UNCHANGED <<command, parsed>>
  /\ UNCHANGED notCommand

\* command:error settled: `throw error`, or the listener's own error
CommandErrorDone ==
  /\ cpc = "command:error"
  /\ \/ CommandFinally("rejected", cmdError, <<>>)
     \/ CommandFinally("rejected", HookError("command:error", ""),
                       <<<<"threw", "command:error">>>>)
  /\ UNCHANGED <<command, parsed, cmdError>>
  /\ UNCHANGED notCommand

\* `await command.cleanup(ctx)` settled: an error of cleanup replaces the
\* completion the finally block was entered with
CommandCleanupDone ==
  /\ cpc = "cleanup"
  /\ \/ /\ cpc' = cmdOutcome.settle
        /\ cmdOutcome' = [cmdOutcome EXCEPT !.state = cmdOutcome.settle]
        /\ UNCHANGED cmdLog
     \/ /\ cpc' = "rejected"
        /\ cmdOutcome' = [state |-> "rejected", settle |-> "rejected",
                          error |-> CleanupError]
        /\ Logged("threw", "cleanup")
  /\ UNCHANGED <<command, parsed, cmdError>>
  /\ UNCHANGED notCommand

\* sequences of definitions with the keys in declaration order
DefLists(Defs, keys, max) ==
  UNION {{ds \in [1..n -> Defs] : \A i \in 1..n : ds[i].key = keys[i]} :
           n \in 0..max}

CommandInit ==
  /\ PipelineIdle /\ LifecycleIdle /\ EditIdle /\ ComposeIdle /\ OverlapIdle
  /\ RegistryIdle /\ NexocIdle
  /\ command \in [options : DefLists(OptionDefs, OptionKeys, MaxOptionDefs),
                  args : DefLists(ArgDefs, ArgKeys, MaxArgDefs),
                  hasSetup : BOOLEAN, hasCleanup : BOOLEAN]
  /\ parsed \in [rawArgs : UNION {[1..n -> RawTokens] : n \in 0..MaxRawArgs},
                 options : {<<>>}, args : {<<>>}]
  /\ cpc = "idle"
  /\ cmdError = NoError
  /\ cmdOutcome = [state |-> "none", settle |-> "none", error |-> NoError]
  /\ cmdLog = <<>>

CommandNext ==
  \/ CommandExecute
  \/ CommandBeforeDone
  \/ CommandSetupDone
  \/ CommandRunDone
  \/ CommandAfterDone
  \/ CommandErrorDone
  \/ CommandCleanupDone

CommandSpec == CommandInit /\ [][CommandNext]_vars

(***************************************************************************)
(* CommandRegistry: three maps, filled by register and emptied by remove.   *)
(* A command is its meta: name, declared aliases and group.  The names and  *)
(* aliases of the pool are non-empty strings; a command without a group has *)
(* the empty (falsy) group.                                                 *)
(***************************************************************************)
RegistryNames == {"a", "b"}
RegistryAliases == {"x", "y"}
NoGroup == ""
RegistryGroups == {NoGroup, "g"}
RegistryCommands ==
  [name : RegistryNames, aliases : SUBSET RegistryAliases, group : RegistryGroups]

\* Map.prototype.set and Map.prototype.delete
MapSet(map, key, v) ==
  [k \in DOMAIN map \cup {key} |-> IF k = key THEN v ELSE map[k]]
MapDelete(map, key) == [k \in DOMAIN map \ {key} |-> map[k]]

\* the aliases map after `for (const alias of as) this.aliases.set(alias, name)`
SetAliases(map, as, name) ==
  [k \in DOMAIN map \cup as |-> IF k \in as THEN name ELSE map[k]]

\* the aliases map after `for (const alias of as) this.aliases.delete(alias)`
DeleteAliases(map, as) == [k \in DOMAIN map \ as |-> map[k]]

\* register(command)
Register(cmd) ==
  /\ commands' = MapSet(commands, cmd.name, cmd)
  /\ aliases' = SetAliases(aliases, cmd.aliases, cmd.name)
  /\ groups' =
       IF cmd.group # NoGroup
         THEN MapSet(groups, cmd.group,
                     (IF cmd.group \in DOMAIN groups THEN groups[cmd.group]
                                                     ELSE {}) \cup {cmd.name})
         ELSE groups
  /\ UNCHANGED notRegistry

\* remove(name): false, and nothing changes, when the name is not registered
Remove(name) ==
  /\ IF name \notin DOMAIN commands
       THEN UNCHANGED registryVars
       ELSE LET cmd == commands[name]
            IN  /\ aliases' = DeleteAliases(aliases, cmd.aliases)
                /\ groups' =
                     IF cmd.group # NoGroup /\ cmd.group \in DOMAIN groups
                       THEN MapSet(groups, cmd.group, groups[cmd.group] \ {name})
                       ELSE groups
                /\ commands' = MapDelete(commands, name)
  /\ UNCHANGED notRegistry

\* what get returns: <<command>>, or <<>> for undefined
NoCommand == <<>>

\* Map.prototype.get on the commands map
GetCommand(name) ==
  IF name \in DOMAIN commands THEN <<commands[name]>> ELSE NoCommand

\* get(nameOrAlias)
get(nameOrAlias) ==
  IF nameOrAlias \in DOMAIN commands
    THEN GetCommand(nameOrAlias)
    ELSE IF nameOrAlias \in DOMAIN aliases
           THEN GetCommand(aliases[nameOrAlias])
           ELSE NoCommand

\* has(nameOrAlias)
has(nameOrAlias) ==
  nameOrAlias \in DOMAIN commands \/ nameOrAlias \in DOMAIN aliases

RegistryInit ==
  /\ PipelineIdle /\ LifecycleIdle /\ EditIdle /\ ComposeIdle /\ OverlapIdle
  /\ CommandIdle /\ NexocIdle
  /\ RegistryIdle

RegistryNext ==
  \/ \E cmd \in RegistryCommands : Register(cmd)
  \/ \E name \in RegistryNames : Remove(name)

RegistrySpec == RegistryInit /\ [][RegistryNext]_vars

(***************************************************************************)
(* The pipelines and options a run is checked for.  Stage names are unique  *)
(* within a pipeline, so the stage list is a prefix of the name pool; a     *)
(* dependency may name a stage that is not in the pipeline.  Options the    *)
(* engine never reads under the chosen policy keep their defaults.          *)
(***************************************************************************)
OnErrorValues == {"undefined", "stop", "continue", "retry"}
MaxRetriesValues == {<<>>} \cup {<<n>> : n \in 0..MaxRetriesOpt}
DependencySets == {D \in SUBSET AllNames : Cardinality(D) <= MaxDeps}

Init ==
  /\ \E n \in 0..MaxStages : stages = [i \in 1..n |-> StageNamePool[i]]
  /\ dependencies \in [AllNames -> DependencySets]
  /\ hasCondition \in [AllNames -> BOOLEAN]
  /\ skippable \in [AllNames -> BOOLEAN]
  /\ options \in [parallel : BOOLEAN, onError : OnErrorValues,
                  maxRetries : MaxRetriesValues]
  /\ \A s \in AllNames \ Range(stages) :
        dependencies[s] = {} /\ ~hasCondition[s] /\ ~skippable[s]
  /\ options.onError # "continue" => \A s \in AllNames : ~skippable[s]
  /\ options.onError # "retry" => options.maxRetries = <<>>
  /\ options.onError = "retry" => Len(stages) <= MaxRetryStages
  /\ (options.onError \in {"continue", "retry"} \/ \E s \in AllNames : hasCondition[s])
        => Len(stages) <= MaxGuardedStages
  /\ ctx = createPipelineContext
  /\ epc = "init"
  /\ outcome = NoOutcome
  /\ stageIndex = 1
  /\ currentInput = InitialInput
  /\ pending = {}
  /\ executable = <<>>
  /\ task = [s \in AllNames |-> IdleTask]
  /\ bodyCalls = [s \in AllNames |-> 0]
  /\ bodyFails = [s \in AllNames |-> 0]
  /\ condSkipped = {}
  /\ hookCount = [k \in HookKeys |-> 0]
  /\ hookThrew = {}
  /\ abortCalled = FALSE
  /\ settleOrder = <<>>
  /\ LifecycleIdle
  /\ EditIdle /\ ComposeIdle /\ OverlapIdle /\ CommandIdle
  /\ RegistryIdle /\ NexocIdle

Next ==
  \/ Execute
  \/ StartHookDone
  \/ SeqIter
  \/ SeqResume
  \/ ParIter
  \/ ParJoin
  \/ \E s \in AllNames : ConditionDone(s)
  \/ \E s \in AllNames : SkipHookDone(s)
  \/ \E s \in AllNames : BeforeHookDone(s)
  \/ \E s \in AllNames : BodyDone(s)
  \/ \E s \in AllNames : AfterHookDone(s)
  \/ \E s \in AllNames : ErrorHookDone(s)
  \/ EndHookDone
  \/ Abort

Spec == Init /\ [][Next]_vars

(***************************************************************************)
(* The run under the assumption that every condition, stage body and hook   *)
(* listener terminates and that the event loop resumes what is ready: each  *)
(* resumption of the engine that stays enabled is eventually taken.  Calls  *)
(* of abort(ctx) are left to the environment.                               *)
(***************************************************************************)
Terminating ==
  /\ WF_vars(StartHookDone)
  /\ WF_vars(SeqIter)
  /\ WF_vars(SeqResume)
  /\ WF_vars(ParIter)
  /\ WF_vars(ParJoin)
  /\ WF_vars(EndHookDone)
  /\ \A s \in AllNames :
       /\ WF_vars(ConditionDone(s))
       /\ WF_vars(SkipHookDone(s))
       /\ WF_vars(BeforeHookDone(s))
       /\ WF_vars(BodyDone(s))
       /\ WF_vars(AfterHookDone(s))
       /\ WF_vars(ErrorHookDone(s))

FairSpec == Spec /\ Terminating

(***************************************************************************)
(* The Pipeline of the nexoc package copy (src/unnamed/part_003).  Its      *)
(* execute, executeStage, executeSequential and checkDependencies have the  *)
(* text of scaffolds/pipeline line for line and are the actions above; its  *)
(* executeParallel keeps one more local, the set `executed`, and is         *)
(* translated here from the copy.  A run of the copy starts from the same   *)
(* pipelines and options, with `executed` empty.                            *)
(***************************************************************************)
\* this.stages.filter(stage => pending.has(stage.name) && checkDependencies)
NexocExecutable(pend, c) ==
  SelectSeq(stages, LAMBDA s : s \in pend /\ CheckDependencies(s, c))

\* what ParJoin of scaffolds/pipeline does to the pipeline's own state (its
\* executable.forEach and `if (ctx.aborted) break`), whatever else changes
ScaffoldsParJoin ==
  /\ epc = "await"
  /\ options.parallel
  /\ WaveFulfilled
  /\ pending' = pending \ Range(executable)
  /\ currentInput' =
       CarriedValue(executable, [s \in Range(executable) |-> task[s].result])
  /\ IF ctx.aborted
     THEN CallEndHook
     ELSE epc' = "loop" /\ UNCHANGED hookCount
  /\ UNCHANGED <<config, ctx, outcome, stageIndex, executable, task, bodyCalls,
                 bodyFails, condSkipped, hookThrew, abortCalled, settleOrder>>

\* the top of the while loop up to the call of Promise.all
NexocParIter ==
  /\ epc = "loop"
  /\ options.parallel
  /\ IF pending = {}
     THEN /\ CallEndHook
          /\ UNCHANGED <<ctx, outcome, task, executable, settleOrder>>
     ELSE LET exe == NexocExecutable(pending, ctx)
              launched == [s \in Range(exe) |-> StartStage(s, currentInput, 0, ctx)]
              failed == SelectSeq(exe, LAMBDA s : launched[s].pc = "rejected")
          IN  IF exe = <<>>
              THEN /\ epc' = "rejected"
                   /\ outcome' = [result |-> <<>>, error |-> CircularError]
                   /\ ctx' = [ctx EXCEPT !.aborted = TRUE]
                   /\ UNCHANGED <<task, executable, hookCount, settleOrder>>
              ELSE /\ executable' = exe
                   /\ settleOrder' = settleOrder \o failed
                   /\ task' = [s \in AllNames |->
                                 IF s \in Range(exe) THEN launched[s] ELSE task[s]]
                   /\ hookCount' = [k \in HookKeys |->
                        IF k[2] \in Range(exe) /\ launched[k[2]].pc = k[1]
                        THEN hookCount[k] + 1 ELSE hookCount[k]]
                   /\ IF failed = <<>>
                      THEN /\ epc' = "await"
                           /\ UNCHANGED <<ctx, outcome>>
                      ELSE /\ epc' = "rejected"
                           /\ outcome' = [result |-> <<>>,
                                          error |-> launched[failed[1]].error]
                           /\ ctx' = [ctx EXCEPT !.aborted = TRUE]
  /\ UNCHANGED notNexoc
  /\ UNCHANGED <<config, stageIndex, currentInput, pending, bodyCalls, bodyFails,
                 condSkipped, hookThrew, abortCalled, executed>>

\* mutant: the stages already in `executed`, not those of the wave, leave
\* the pending set
NexocParJoinByExecuted ==
  /\ epc = "await"
  /\ options.parallel
  /\ WaveFulfilled
  /\ executed' = executed \cup Range(executable)
  /\ pending' = pending \ executed
  /\ currentInput' =
       CarriedValue(executable, [s \in Range(executable) |-> task[s].result])
  /\ IF ctx.aborted
     THEN CallEndHook
     ELSE epc' = "loop" /\ UNCHANGED hookCount
  /\ UNCHANGED notNexoc
  /\ UNCHANGED <<config, ctx, outcome, stageIndex, executable, task, bodyCalls,
                 bodyFails, condSkipped, hookThrew, abortCalled, settleOrder>>

\* Promise.all resolved: executable.forEach adds each stage of the wave to
\* `executed`, deletes it from `pending` and assigns its result
NexocParJoin ==
  /\ epc = "await"
  /\ options.parallel
  /\ WaveFulfilled
  /\ executed' = executed \cup Range(executable)
  /\ pending' = pending \ Range(executable)
  /\ currentInput' =
       CarriedValue(executable, [s \in Range(executable) |-> task[s].result])
  /\ IF ctx.aborted
     THEN CallEndHook
     ELSE epc' = "loop" /\ UNCHANGED hookCount
  /\ UNCHANGED notNexoc
  /\ UNCHANGED <<config, ctx, outcome, stageIndex, executable, task, bodyCalls,
                 bodyFails, condSkipped, hookThrew, abortCalled, settleOrder>>

NexocNext ==
  \/ Execute
  \/ StartHookDone
  \/ SeqIter
  \/ SeqResume
  \/ NexocParIter
  \/ NexocParJoin
  \/ \E s \in AllNames : ConditionDone(s)
  \/ \E s \in AllNames : SkipHookDone(s)
  \/ \E s \in AllNames : BeforeHookDone(s)
  \/ \E s \in AllNames : BodyDone(s)
  \/ \E s \in AllNames : AfterHookDone(s)
  \/ \E s \in AllNames : ErrorHookDone(s)
  \/ EndHookDone
  \/ Abort

NexocSpec == Init /\ [][NexocNext]_vars

(***************************************************************************)
(* Vocabulary of the properties.                                            *)
(***************************************************************************)
InPipeline == Range(stages)
Sequential == ~options.parallel
Satisfied(dep) == HasResult(ctx, dep) \/ dep \in ctx.skippedStages
Settled(s) == task[s].pc \in {"fulfilled", "rejected"}

\* no hook listener threw and abort(ctx) was not called in the run so far
QuietRun == hookThrew = {} /\ ~abortCalled

\* the stage's failure was absorbed under the continue policy
Absorbed(s) == s \in ctx.skippedStages /\ s \notin condSkipped

\* the value chained through the first j stages when every body succeeds
RECURSIVE Chain(_)
Chain(j) == IF j = 0 THEN InitialInput ELSE StageFn(stages[j], Chain(j - 1))

\* the stages that s depends on, directly or through other stages
RECURSIVE Ancestors(_, _)
Ancestors(S, k) ==
  IF k = 0 THEN S
  ELSE Ancestors(S \cup UNION {dependencies[x] : x \in S}, k - 1)
Acyclic == \A s \in InPipeline : s \notin Ancestors(dependencies[s], Len(stages))
DepsInPipeline == \A s \in InPipeline : dependencies[s] \subseteq InPipeline

(***************************************************************************)
(* C1: no stage name is at once a key of ctx.stageResults and a member of   *)
(* ctx.skippedStages, in any mode, under any policy, with any listeners.    *)
(* The engine breaks it: pipeline:stage:after is dispatched inside the try  *)
(* block after the result was recorded, so a throwing listener sends a      *)
(* completed stage through the error policy, which may mark it skipped.     *)
(***************************************************************************)
C1_ResultsSkippedDisjoint ==
  \A s \in AllNames : ~(HasResult(ctx, s) /\ s \in ctx.skippedStages)

(***************************************************************************)
(* C2: a stage's execute function is invoked only with every declared       *)
(* dependency in stageResults or skippedStages (both modes), and a stage    *)
(* without dependencies is always eligible: it never fails the dependency   *)
(* check and, in parallel mode, is in the first wave that finds it pending. *)
(***************************************************************************)
C2_BodyOnlyWithDependenciesMet ==
  \A s \in AllNames :
    /\ (task[s].pc = "body" \/ bodyCalls[s] > 0) =>
          \A dep \in dependencies[s] : Satisfied(dep)
    /\ dependencies[s] = {} =>
          /\ task[s].error # UnmetError(s)
          /\ (options.parallel /\ epc = "await" /\ s \in pending) =>
                s \in Range(executable)

C2_Witness ==
  \E s \in AllNames :
    /\ task[s].pc = "body"
    /\ Cardinality(dependencies[s]) = 2
    /\ \A dep \in dependencies[s] : Satisfied(dep)

(***************************************************************************)
(* C3: in sequential mode the stages start in list order whatever their     *)
(* dependencies say; nothing of a stage (condition, hooks, body) happens    *)
(* before every earlier stage has finished or been skipped; and the input   *)
(* of stage i+1 is what stage i produced: its body's output on success, its *)
(* own input when it was skipped.                                           *)
(***************************************************************************)
C3_SequentialOrderAndChaining ==
  Sequential =>
    \A j \in 1..Len(stages) :
      LET s == stages[j] IN
      /\ task[s].pc = "idle" =>
           /\ bodyCalls[s] = 0
           /\ s \notin condSkipped
           /\ \A h \in StageHooks : hookCount[<<h, s>>] = 0
      /\ task[s].pc # "idle" =>
           /\ \A k \in 1..(j - 1) : task[stages[k]].pc = "fulfilled"
           /\ task[s].input = IF j = 1 THEN InitialInput
                              ELSE task[stages[j - 1]].result
      /\ task[s].pc = "fulfilled" =>
           task[s].result = IF s \in ctx.skippedStages THEN task[s].input
                            ELSE StageFn(s, task[s].input)

C3_Witness ==
  /\ Sequential
  /\ Len(stages) = 3
  /\ dependencies[stages[3]] = {}
  /\ dependencies[stages[2]] = {stages[1]}
  /\ task[stages[3]].pc = "body"
  /\ task[stages[3]].input = <<stages[1], stages[2]>>

C5_AsClaimed ==
  QuietRun =>
    \A s \in condSkipped :
      /\ bodyCalls[s] = 0
      /\ task[s].pc = "fulfilled" =>
           /\ s \in ctx.skippedStages
           /\ ~HasResult(ctx, s)
           /\ task[s].result = task[s].input

(***************************************************************************)
(* C5, amended: a stage whose condition returns false on the first attempt  *)
(* of the stage never has its execute function invoked in the run, no error *)
(* hook is dispatched for it and no policy is applied to it; when its       *)
(* pipeline:stage:skip dispatch has resolved it is in skippedStages, not in *)
(* stageResults, and the chained value is its unchanged input.  A stage     *)
(* whose condition returns false on a later attempt is not invoked again.   *)
(***************************************************************************)
C5_ConditionFalseSkips ==
  \A s \in condSkipped :
    /\ task[s].pc \in {"stage:skip", "fulfilled", "rejected"}
    /\ task[s].retryCount = 0 =>
         /\ bodyCalls[s] = 0
         /\ hookCount[<<"stage:before", s>>] = 0
         /\ hookCount[<<"stage:error", s>>] = 0
         /\ ~HasResult(ctx, s)
    /\ task[s].pc = "fulfilled" =>
         /\ s \in ctx.skippedStages
         /\ task[s].result = task[s].input
         /\ (Sequential /\ epc = "loop" /\ stageIndex > 1
               /\ stages[stageIndex - 1] = s) => currentInput = task[s].input
    /\ task[s].pc = "rejected" => task[s].error = HookError("stage:skip", s)

C5_Witness ==
  \E s \in condSkipped :
    /\ options.onError = "continue"
    /\ Len(stages) = 2
    /\ s = stages[1]
    /\ task[s].retryCount = 0
    /\ task[stages[2]].pc = "body"
    /\ task[stages[2]].input = InitialInput

(***************************************************************************)
(* C6: under the retry policy with maxRetries configured as N, or with N = 3*)
(* when it is not configured, a body is invoked at most N + 1 times; a      *)
(* stage that fails k <= N times and then succeeds is invoked k + 1 times   *)
(* and yields its success value; a stage that fails every time is invoked   *)
(* N + 1 times and its last error is re-raised.  The engine reads the       *)
(* option as `maxRetries || 3`, so that a configured 0 counts as 3.         *)
(***************************************************************************)
ClaimedMaxRetries ==
  IF options.maxRetries = <<>> THEN 3 ELSE options.maxRetries[1]

C6_RetryBound ==
  (options.onError = "retry" /\ QuietRun) =>
    \A s \in AllNames :
      /\ bodyCalls[s] <= ClaimedMaxRetries + 1
      /\ (task[s].pc = "fulfilled" /\ s \notin condSkipped) =>
           /\ bodyCalls[s] = bodyFails[s] + 1
           /\ task[s].result = StageFn(s, task[s].input)
      /\ (task[s].pc = "rejected" /\ bodyFails[s] > 0) =>
           /\ bodyCalls[s] = ClaimedMaxRetries + 1
           /\ task[s].error = StageError(s, ClaimedMaxRetries)
           /\ outcome.error = task[s].error

Unabsorbed(s) ==
  \/ options.onError \in {"undefined", "stop"}
  \/ options.onError = "continue" /\ ~skippable[s]

\* the body of s failed and the dispatch of its stage:error has resolved
FailedThrough(s) ==
  Unabsorbed(s) /\ bodyFails[s] > 0 /\ task[s].pc # "stage:error"

LaterStagesIdle(s) ==
  \A j, k \in 1..Len(stages) :
    (stages[j] = s /\ k > j) => task[stages[k]].pc = "idle"

PastCondition(s) ==
  /\ task[s].pc \notin {"idle", "cond", "stage:skip"}
  /\ s \notin condSkipped

C9_UnmetDependenciesFatal ==
  \A s \in AllNames :
    /\ (PastCondition(s) /\ ~CheckDependencies(s, ctx)) =>
          /\ task[s].pc = "rejected"
          /\ task[s].error = UnmetError(s)
    /\ task[s].error = UnmetError(s) =>
          /\ task[s].pc = "rejected"
          /\ epc = "rejected"
          /\ outcome.error = UnmetError(s)
          /\ ctx.aborted
          /\ s \notin ctx.skippedStages
          /\ ~HasResult(ctx, s)
          /\ task[s].retryCount = 0
          /\ bodyCalls[s] = 0
          /\ hookCount[<<"stage:before", s>>] = 0
          /\ hookCount[<<"stage:error", s>>] = 0

C9_Witness ==
  \E s \in AllNames :
    /\ options.onError = "continue"
    /\ skippable[s]
    /\ hasCondition[s]
    /\ task[s].error = UnmetError(s)
    /\ epc = "rejected"

OnCycle(s) == s \in InPipeline /\ s \in Ancestors(dependencies[s], Len(stages))

\* nothing of the stage has happened: no condition, no hook, no body
Untouched(s) ==
  /\ task[s].pc = "idle"
  /\ bodyCalls[s] = 0
  /\ s \notin condSkipped
  /\ \A h \in StageHooks : hookCount[<<h, s>>] = 0

C12_WaveCarriedValue ==
  options.parallel =>
    /\ \A s, u \in Range(executable) : task[s].input = task[u].input
    /\ epc = "await" => \A s \in Range(executable) : task[s].input = currentInput
    /\ (epc \in {"loop", "end", "resolved"} /\ executable # <<>>) =>
         currentInput = task[executable[Len(executable)]].result
    /\ \A s \in AllNames :
         (task[s].pc = "fulfilled" /\ s \notin ctx.skippedStages) =>
           /\ HasResult(ctx, s)
           /\ ctx.stageResults[s] = task[s].result
           /\ task[s].result = StageFn(s, task[s].input)
    /\ epc = "resolved" =>
         /\ outcome.result = currentInput
         /\ executable = <<>> => outcome.result = InitialInput

C12_Witness ==
  /\ options.parallel
  /\ stages = <<"A", "B", "C">>
  /\ dependencies["C"] = {"A", "B"}
  /\ settleOrder = <<"B", "A", "C">>
  /\ epc = "resolved"
  /\ outcome.result = <<"B", "C">>
  /\ ctx.stageResults["A"] = <<"A">>
  /\ ctx.stageResults["B"] = <<"B">>

(***************************************************************************)
(* C13: in parallel mode the stages of a wave are all launched before any   *)
(* of them is awaited, and nothing of the next wave begins before every     *)
(* stage of the wave has settled: a stage outside the current wave is       *)
(* either fulfilled (an earlier wave) or untouched (a later one), and the   *)
(* engine computes the next wave only when every call of the current wave   *)
(* is fulfilled.                                                            *)
(***************************************************************************)
C13_WaveBarrier ==
  options.parallel =>
    /\ \A s \in Range(executable) : task[s].pc # "idle"
    /\ \A s \in AllNames \ Range(executable) :
         Untouched(s) \/ (task[s].pc = "fulfilled" /\ s \notin pending)
    /\ epc = "loop" => \A s \in Range(executable) : task[s].pc = "fulfilled"
    /\ \A s \in AllNames : task[s].pc = "idle" => Untouched(s)

C13_Witness ==
  /\ options.parallel
  /\ stages = <<"A", "B", "C">>
  /\ dependencies["B"] = {"A"} /\ dependencies["C"] = {"A"}
  /\ executable = <<"B", "C">>
  /\ epc = "await"
  /\ task["A"].pc = "fulfilled"
  /\ task["B"].pc = "fulfilled"
  /\ task["C"].pc = "body"

(***************************************************************************)
(* C14: pipeline:start is dispatched exactly once, before any condition,    *)
(* hook or body of a stage; pipeline:end is dispatched at most once, after  *)
(* all stage activity, exactly when the stage-execution body returned       *)
(* without a propagated error, and never when execute rejects because of a  *)
(* stage.  Holds with any listeners, under any policy, with or without      *)
(* abort.                                                                   *)
(***************************************************************************)
C14_StartEndOnce ==
  /\ hookCount[<<"pipeline:start", "">>] = IF epc = "init" THEN 0 ELSE 1
  /\ (epc \in {"init", "start"} \/ outcome.error = HookError("pipeline:start", ""))
        => \A s \in AllNames : Untouched(s)
  /\ hookCount[<<"pipeline:end", "">>] =
        IF \/ epc \in {"end", "resolved"}
           \/ epc = "rejected" /\ outcome.error = HookError("pipeline:end", "")
        THEN 1 ELSE 0
  /\ hookCount[<<"pipeline:end", "">>] = 1 =>
        \A s \in AllNames : Untouched(s) \/ task[s].pc = "fulfilled"
  /\ (epc = "rejected" /\ \E s \in AllNames : task[s].pc = "rejected") =>
        hookCount[<<"pipeline:end", "">>] = 0

C14_Witness ==
  /\ Len(stages) = 3
  /\ epc = "resolved"
  /\ hookCount[<<"pipeline:start", "">>] = 1
  /\ hookCount[<<"pipeline:end", "">>] = 1
  /\ \A s \in InPipeline : task[s].pc = "fulfilled" /\ bodyCalls[s] = 1

(***************************************************************************)
(* C15: whenever execute rejects, with any error from any point of the run, *)
(* the error of a pipeline:start or pipeline:end listener included, the     *)
(* context has aborted = true, the caller receives the error and no result  *)
(* is returned.  The engine dispatches pipeline:start before it enters the  *)
(* try block whose catch sets aborted, so a throwing pipeline:start         *)
(* listener rejects execute with aborted still false.                       *)
(***************************************************************************)
C15_RejectionMarksAborted ==
  epc = "rejected" =>
    /\ ctx.aborted
    /\ outcome.error # NoError
    /\ outcome.result = <<>>

(***************************************************************************)
(* C16: once ctx.aborted is set it is never reset, and no stage is started  *)
(* afterwards, in sequential and in parallel mode (read in the engine's     *)
(* favour: a stage that had begun before the flag was set may run on).      *)
(* The parallel loop tests the flag only after a wave, so that a flag set   *)
(* before the first wave (by a pipeline:start listener) stops nothing.      *)
(***************************************************************************)
C16_AbortedStopsRun ==
  [][ctx.aborted =>
       /\ ctx'.aborted
       /\ \A s \in AllNames : task[s].pc = "idle" => task'[s].pc = "idle"]_vars

(***************************************************************************)
(* C17: a throwing listener of any pipeline hook makes execute reject with  *)
(* the listener's error under every policy: the error is neither retried    *)
(* nor absorbed, so the stage call it was thrown in is rejected and the run *)
(* never reaches pipeline:end.  pipeline:stage:after is dispatched inside   *)
(* the try block of executeStage, so the error of its listener goes through *)
(* the error policy like a failure of the stage body.                       *)
(***************************************************************************)
C17_ThrowingListenerRejects ==
  /\ hookThrew # {} => epc \notin {"end", "resolved"}
  /\ \A s \in AllNames :
       task[s].error \in {HookError(h, s) : h \in StageHooks} =>
         task[s].pc \in {"stage:error", "rejected"}

(***************************************************************************)
(* Vocabulary of the lifecycle properties.                                  *)
(***************************************************************************)
LastOf(seq) == seq[Len(seq)]
ValidRange == StartIndex # 0 /\ EndIndex # 0
\* the context runPhase built for the k-th dispatched phase
BuiltContext(k) == contexts[before.context + k]

(***************************************************************************)
(* C18: a lifecycle run with valid startPhase s and endPhase e, s not after *)
(* e, without skipped phases and without abort, dispatches the hooks of the *)
(* phases from s to e in table order, once each and none outside the range; *)
(* the hook of a phase is dispatched only when the dispatch of the phase    *)
(* before it has settled; and the run resolves only when the hook of e has  *)
(* been dispatched.  It rejects only with the error a listener or the       *)
(* transform callback threw.                                                *)
(***************************************************************************)
C18_PhasesInOrder ==
  ( /\ ValidRange /\ StartIndex <= EndIndex
    /\ runOptions.skipPhases = {}
    /\ abortLog = <<>> ) =>
      /\ Len(dispatched) <= EndIndex - StartIndex + 1
      /\ \A k \in 1..Len(dispatched) :
           dispatched[k] = LIFECYCLE_PHASES[StartIndex + k - 1]
      /\ IF rpc = "hook"
         THEN dispatched = Append(settledHooks, LIFECYCLE_PHASES[phaseIndex])
         ELSE dispatched = settledHooks
      /\ rpc # "idle" => Len(dispatched) >= 1
      /\ rpc = "resolved" => Len(dispatched) = EndIndex - StartIndex + 1
      /\ rpc = "rejected" =>
           runError \in {ListenerError(LastOf(dispatched)),
                         TransformError(LastOf(dispatched))}

C18_Witness ==
  /\ runOptions.startPhase = "prepare"
  /\ runOptions.endPhase = "generate"
  /\ runOptions.skipPhases = {}
  /\ abortLog = <<>>
  /\ rpc = "resolved"
  /\ dispatched = <<"prepare", "execute", "transform", "generate">>

(***************************************************************************)
(* C19: when abort(reason) is called from inside a listener of              *)
(* lifecycle:<p>, no hook of a later phase is dispatched and the transform  *)
(* callback is not called for p; run does not throw unless a listener of p  *)
(* throws; and the context it returns is the one built for p, with          *)
(* aborted = true and abortReason the reason supplied.                      *)
(***************************************************************************)
C19_AbortInListener ==
  \A k \in DOMAIN abortLog :
    abortLog[k].during = "hook" =>
      LET p == abortLog[k].phase IN
      /\ LastOf(dispatched) = p
      /\ currentPhase = p
      /\ p \notin Range(transformed)
      /\ rpc \in {"hook", "resolved", "rejected"}
      /\ rpc = "rejected" => runError = ListenerError(p)
      /\ rpc = "resolved" =>
           /\ returned = context
           /\ contexts[returned] = BuiltContext(Len(dispatched))
           /\ contexts[returned].phase = p
           /\ contexts[returned].aborted
           /\ contexts[returned].abortReason = LastOf(abortLog).reason

C19_Witness ==
  /\ runOptions.startPhase = "init"
  /\ runOptions.endPhase = "cleanup"
  /\ runOptions.skipPhases = {}
  /\ abortLog = <<[phase |-> "execute", during |-> "hook", reason |-> "user"]>>
  /\ rpc = "resolved"
  /\ LastOf(dispatched) = "execute"
  /\ contexts[returned].phase = "execute"
  /\ contexts[returned].aborted
  /\ contexts[returned].abortReason = "user"

(***************************************************************************)
(* C20: for a phase in skipPhases runPhase builds no context, no hook is    *)
(* dispatched and the transform callback is not called; the data value      *)
(* passes across it unchanged: an executed phase receives what the executed *)
(* phase before it left (transformed when transform is supplied), however   *)
(* many skipped phases lie between them; and run never assigns a skipped    *)
(* phase or its context to the manager's current phase and context.  (The   *)
(* context of a run that executes no phase carries the phase 'init'         *)
(* whatever skipPhases says; it is not built by runPhase.)                  *)
(***************************************************************************)
C20_SkippedPhases ==
  /\ \A p \in runOptions.skipPhases :
       /\ p \notin Range(dispatched)
       /\ p \notin Range(transformed)
       /\ \A c \in (before.context + 1)..Len(contexts) :
            contexts[c].phase = p => (dispatched = <<>> /\ c = returned)
  /\ Len(received) = Len(dispatched)
  /\ \A k \in 1..Len(dispatched) :
       /\ BuiltContext(k).phase = dispatched[k]
       /\ received[k] =
            IF k = 1 THEN InitialData
            ELSE IF dispatched[k - 1] \in Range(transformed)
                 THEN Transform(BuiltContext(k - 1).data, dispatched[k - 1])
                 ELSE BuiltContext(k - 1).data
  /\ IF dispatched = <<>>
     THEN currentPhase = before.currentPhase /\ context = before.context
     ELSE /\ currentPhase = LastOf(dispatched)
          /\ currentPhase \notin runOptions.skipPhases
          /\ context = before.context + Len(dispatched)

C20_Witness ==
  /\ runOptions.startPhase = "init"
  /\ runOptions.skipPhases = {"validate", "prepare"}
  /\ runOptions.transform
  /\ writes = 1
  /\ Len(dispatched) >= 3
  /\ dispatched[1] = "init"
  /\ dispatched[2] = "execute"
  /\ received[2] = << <<"listener", "init">>, <<"transform", "init">> >>

(***************************************************************************)
(* C21: a lifecycle run whose startPhase or endPhase is not one of the      *)
(* eight phases fails with the invalid-phase error before any hook is       *)
(* dispatched, any context built or the transform callback called, and      *)
(* leaves the manager's current phase and current context as they were; a   *)
(* run with two valid phases never fails with that error.                   *)
(***************************************************************************)
C21_InvalidPhaseRejected ==
  IF runOptions.startPhase \notin PhaseNames \/ runOptions.endPhase \notin PhaseNames
  THEN /\ rpc \in {"idle", "rejected"}
       /\ rpc = "rejected" => runError = InvalidPhaseError
       /\ dispatched = <<>> /\ transformed = <<>>
       /\ currentPhase = before.currentPhase
       /\ context = before.context
       /\ Len(contexts) = before.context
       /\ context # 0 =>
            contexts[context] = createLifecycleContext(currentPhase, StaleData)
       /\ returned = 0
  ELSE runError # InvalidPhaseError

C21_Witness ==
  /\ runOptions.startPhase = "validate"
  /\ runOptions.endPhase = "bogus"
  /\ before.currentPhase = "cleanup"
  /\ rpc = "rejected"
  /\ runError = InvalidPhaseError
  /\ currentPhase = "cleanup"

(***************************************************************************)
(* C22: the first executed phase receives initialData; the phase executed   *)
(* after a phase receives transform(ctx.data, phase) of that phase when     *)
(* transform is supplied and its ctx.data otherwise; and transform is never *)
(* applied to the data of the last phase of the run.  The engine decides    *)
(* "last" by `i < endIndex`: when endPhase is in skipPhases, the last       *)
(* executed phase lies before endIndex and the transform callback is called *)
(* with its data, the value returned being dropped.                         *)
(***************************************************************************)
C22_DataThreading ==
  /\ \A k \in 1..Len(dispatched) :
       received[k] =
         IF k = 1 THEN InitialData
         ELSE IF runOptions.transform
              THEN Transform(BuiltContext(k - 1).data, dispatched[k - 1])
              ELSE BuiltContext(k - 1).data
  /\ (rpc = "resolved" /\ dispatched # <<>>) =>
       /\ LastOf(dispatched) \notin Range(transformed)
       /\ contexts[returned] = BuiltContext(Len(dispatched))

C28_CircularDistinctFromUnmet ==
  /\ \A s \in AllNames : CircularError # UnmetError(s)
  /\ Sequential => outcome.error # CircularError
  /\ options.parallel =>
       /\ \A s \in AllNames :
            task[s].error # UnmetError(s) /\ outcome.error # UnmetError(s)
       /\ epc = "await" => executable # <<>>
       /\ outcome.error = CircularError =>
            /\ epc = "rejected"
            /\ pending # {}
            /\ \A s \in pending : \E dep \in dependencies[s] : ~Satisfied(dep)
            /\ \A s \in AllNames \ pending : Untouched(s) \/ task[s].pc = "fulfilled"
            /\ \A s \in pending : Untouched(s)

C28_Witness ==
  /\ options.parallel
  /\ stages = <<"A", "B">>
  /\ dependencies["A"] = {}
  /\ dependencies["B"] = {"C"}
  /\ task["A"].pc = "fulfilled"
  /\ pending = {"B"}
  /\ epc = "rejected"
  /\ outcome.error = CircularError

(***************************************************************************)
(* C29: the condition is evaluated before the dependencies are checked.     *)
(* In sequential mode a stage whose condition is false, with dependencies   *)
(* that are not met, is marked skipped and passes its input on without an   *)
(* error, while a stage that got past its condition with such dependencies  *)
(* fails with the unmet-dependencies error.  Every attempt of a stage that  *)
(* has a condition, the first one and each retry, begins with the           *)
(* evaluation of the condition.                                             *)
(***************************************************************************)
C29_ConditionBeforeDependencies ==
  /\ [](Sequential =>
         \A s \in AllNames :
           /\ (s \in condSkipped /\ task[s].retryCount = 0) =>
                /\ task[s].error \in {NoError, HookError("stage:skip", s)}
                /\ task[s].pc \in {"stage:skip", "fulfilled", "rejected"}
                /\ task[s].pc = "fulfilled" =>
                     /\ s \in ctx.skippedStages
                     /\ task[s].result = task[s].input
                     /\ epc \in {"await", "loop"} => ~ctx.aborted \/ abortCalled
           /\ (PastCondition(s) /\ ~CheckDependencies(s, ctx)) =>
                /\ task[s].pc = "rejected"
                /\ task[s].error = UnmetError(s)
                /\ outcome.error = UnmetError(s))
  /\ [][\A s \in AllNames :
          ( /\ hasCondition[s]
            /\ task'[s] # task[s]
            /\ \/ task[s].pc = "idle"
               \/ task'[s].retryCount > task[s].retryCount )
          => task'[s].pc = "cond"]_vars

C29_Witness ==
  \E s \in AllNames :
    /\ Sequential
    /\ hasCondition[s]
    /\ s \in condSkipped
    /\ ~CheckDependencies(s, ctx)
    /\ task[s].pc = "fulfilled"
    /\ s \in ctx.skippedStages
    /\ epc = "resolved"
    /\ ~ctx.aborted

(***************************************************************************)
(* C24: insertBefore, insertAfter, removeStage and replaceStage called with *)
(* a name that no stage of the list has leave the list as it was            *)
(* (removeStage and replaceStage return false); with a name that matches,   *)
(* insertBefore puts the new stage right before, and insertAfter right      *)
(* after, the first stage of that name, all other stages keeping their      *)
(* order.                                                                   *)
(***************************************************************************)
C24_InsertAroundFirstMatch ==
  lastCall # <<>> =>
    LET old == lastCall.prior
        x == lastCall.stage
        Matches == {i \in DOMAIN old : old[i].name = lastCall.name}
        first == CHOOSE i \in Matches : \A k \in Matches : i <= k
    IN
    /\ ( /\ lastCall.op \in {"insertBefore", "insertAfter", "removeStage",
                            "replaceStage"}
         /\ Matches = {} ) =>
           /\ stageList = old
           /\ lastCall.op \in {"removeStage", "replaceStage"} =>
                lastCall.returned = FALSE
    /\ (lastCall.op = "insertBefore" /\ Matches # {}) =>
           stageList = SubSeq(old, 1, first - 1) \o <<x>>
                         \o SubSeq(old, first, Len(old))
    /\ (lastCall.op = "insertAfter" /\ Matches # {}) =>
           stageList = SubSeq(old, 1, first) \o <<x>>
                         \o SubSeq(old, first + 1, Len(old))

C24_Witness ==
  /\ lastCall # <<>>
  /\ lastCall.op = "insertAfter"
  /\ lastCall.name = "A"
  /\ Len(lastCall.prior) = 3
  /\ lastCall.prior[1].name = "A"
  /\ lastCall.prior[2].name = "B"
  /\ lastCall.prior[3].name = "A"
  /\ stageList = <<lastCall.prior[1], lastCall.stage,
                   lastCall.prior[2], lastCall.prior[3]>>

(***************************************************************************)
(* C30: after any sequence of addStage, insertStage, insertBefore,          *)
(* insertAfter, replaceStage and removeStage calls no two stages of the     *)
(* list have the same name.  None of the operations looks at the names that *)
(* are already in the list: addStage called twice with one name leaves two  *)
(* stages of that name.                                                     *)
(***************************************************************************)
C30_UniqueStageNames ==
  \A i, j \in DOMAIN stageList :
    i # j => stageList[i].name # stageList[j].name

(***************************************************************************)
(* C23: a run of a composed pipeline calls its child pipelines one at a     *)
(* time in list order, each after the one before it resolved: the first on  *)
(* the run's input and every later one on the result of the child before    *)
(* it.  Once child i (index counted from 0) resolved, its result is at      *)
(* shared["pipeline:<i>:result"] of the composed run's context, and a run   *)
(* that resolves without being aborted resolves with the last child's       *)
(* result.  A child that rejects makes its wrapping stage fail with the     *)
(* child's error: no later child is called and the run rejects.  The        *)
(* child's context is dropped: the step at which a child resolves leaves    *)
(* the aborted flag and the skipped stages of the composed run's context as *)
(* they were, whatever the child's aborted flag is.                         *)
(***************************************************************************)
C23_ComposedRun ==
  /\ [] /\ \A k \in DOMAIN kLog :
             /\ kLog[k].index = k
             /\ kLog[k].input = IF k = 1 THEN InitialInput ELSE kLog[k - 1].result
             /\ k > 1 => kLog[k - 1].settled = "resolved"
             /\ kLog[k].settled = "resolved" =>
                  /\ SharedKey(k - 1) \in DOMAIN kCtx.shared
                  /\ kCtx.shared[SharedKey(k - 1)] = kLog[k].result
                  /\ \E j \in k..Len(kLog) :
                       /\ children[j] = children[k]
                       /\ kLog[j].settled = "resolved"
                       /\ kCtx.stageResults[ComposedStageName(k)] = kLog[j].result
             /\ kLog[k].settled = "rejected" =>
                  /\ k = Len(kLog)
                  /\ kTask.pc \in {"stage:error", "rejected"}
                  /\ kTask.error \in {ChildError(k), HookError("stage:error", k)}
                  /\ kpc \in {"await", "rejected"}
                  /\ kpc = "rejected" => kOutcome.error = kTask.error
        /\ DOMAIN kCtx.shared =
             {SharedKey(k - 1) : k \in {j \in DOMAIN kLog : kLog[j].settled = "resolved"}}
        /\ kCtx.skippedStages = {}
        /\ (kpc = "resolved" /\ ~kCtx.aborted) =>
             /\ Len(kLog) = Len(children)
             /\ kOutcome.result = IF children = <<>> THEN InitialInput
                                  ELSE kLog[Len(kLog)].result
  /\ [][(kTask.pc = "body" /\ kTask'.pc = "stage:after") =>
          /\ kCtx'.aborted = kCtx.aborted
          /\ kCtx'.skippedStages = kCtx.skippedStages]_vars

C23_Witness ==
  /\ kpc = "resolved"
  /\ ~kCtx.aborted
  /\ Len(children) = 3
  /\ children[1] = children[3]
  /\ Len(kLog) = 3
  /\ kLog[2].childAborted
  /\ kOutcome.result = <<<<1, FALSE>>, <<2, TRUE>>, <<3, FALSE>>>>
  /\ kCtx.shared[SharedKey(2)] = kOutcome.result

(***************************************************************************)
(* C25: every execute call starts with a context object of its own, new and *)
(* empty (no stage results, no skipped stages, no shared data, aborted =    *)
(* false); the calls made on one pipeline, overlapping or not, hold         *)
(* different objects.  Hence the context a call holds is at every moment    *)
(* what its own stages, skips and abort made of it, no dependency check or  *)
(* abort check of a call is answered differently because of another call,   *)
(* a call that resolves returns the value chained through its own stages,   *)
(* and no step of execute changes the pipeline's stage list.                *)
(***************************************************************************)
C25_ContextPerExecute ==
  /\ [] /\ \A r \in Runs : runPc[r] # "init" =>
             /\ runCtx[r] \in DOMAIN runContexts
             /\ Held(r) = Own(r)
             /\ ~runLog[r].diverged
             /\ \A q \in Runs \ {r} : runPc[q] # "init" => runCtx[q] # runCtx[r]
             /\ runPc[r] = "resolved" =>
                  /\ Head(runOutcome[r].result) = r
                  /\ Range(Tail(runOutcome[r].result)) = DOMAIN Own(r).stageResults
  /\ [][\A r \in Runs : (runPc[r] = "init" /\ runPc'[r] = "start") =>
          /\ runContexts'[runCtx'[r]] = createPipelineContext
          /\ \A q \in Runs \ {r} : runPc[q] # "init" =>
               runContexts'[runCtx'[q]] = runContexts[runCtx[q]]]_vars
  /\ [][stages' = stages]_vars

C25_Witness ==
  /\ Len(stages) = 2
  /\ dependencies["B"] = {"A"}
  /\ runPc[1] = "body"
  /\ runIndex[1] = 2
  /\ Held(1).skippedStages = {"A"}
  /\ DOMAIN Held(1).stageResults = {}
  /\ ~Held(1).aborted
  /\ runPc[2] = "rejected"
  /\ runOutcome[2].error = StageError("B", 0)
  /\ Held(2).skippedStages = {}
  /\ DOMAIN Held(2).stageResults = {"A"}
  /\ DOMAIN Held(2).shared = {"A"}
  /\ Held(2).aborted

(***************************************************************************)
(* C26: in CommandExecutor.execute, setup and run are called only after     *)
(* command:before was dispatched.  When setup or run throws, command:error  *)
(* is dispatched exactly once, with the error thrown, and command:after is  *)
(* not dispatched; the caller gets that same error when neither the         *)
(* command:error listener nor cleanup throws one of its own.  cleanup, when *)
(* defined, is called exactly once in every call that entered the try       *)
(* block, whether it succeeds or fails, and never when it is not defined or *)
(* the call is still at setup, run or a hook.  A call that lacks a required *)
(* option or argument (no raw argument names the option and it has no       *)
(* default; fewer positional words than the argument's position and no      *)
(* default) is rejected with the missing-option or missing-argument error   *)
(* before anything is dispatched or called.                                 *)
(***************************************************************************)
C26_CommandProtocol ==
  LET Count(e) == Cardinality({i \in DOMAIN cmdLog : cmdLog[i][1] = e})
      Threw(who) == \E i \in DOMAIN cmdLog : cmdLog[i] = <<"threw", who>>
      Finished == cpc \in {"resolved", "rejected"}
      LacksOption ==
        \E i \in DOMAIN command.options :
          /\ command.options[i].required
          /\ ~command.options[i].hasDefault
          /\ \A j \in DOMAIN parsed.rawArgs :
               ~(parsed.rawArgs[j].kind = "long"
                   /\ parsed.rawArgs[j].key = command.options[i].key)
      LacksArgument ==
        \E i \in DOMAIN command.args :
          /\ command.args[i].required
          /\ ~command.args[i].hasDefault
          /\ Cardinality({j \in DOMAIN parsed.rawArgs :
                            parsed.rawArgs[j].kind = "positional"}) < i
  IN
  /\ \A i \in DOMAIN cmdLog : cmdLog[i][1] \in {"setup", "run"} =>
        \E j \in 1..(i - 1) : cmdLog[j] = <<"command:before", "">>
  /\ Count("command:before") <= 1
  /\ \A who \in {"setup", "run"} : Threw(who) =>
        LET error == IF who = "setup" THEN SetupError ELSE RunError
        IN  /\ Count("command:error") = 1
            /\ \E i \in DOMAIN cmdLog : cmdLog[i] = <<"command:error", error>>
            /\ Count("command:after") = 0
            /\ (Finished /\ ~Threw("command:error") /\ ~Threw("cleanup")) =>
                 /\ cpc = "rejected"
                 /\ cmdOutcome.error = error
  /\ Count("cleanup") <= 1
  /\ ~command.hasCleanup => Count("cleanup") = 0
  /\ cpc \in {"command:before", "setup", "run", "command:after", "command:error"}
       => Count("cleanup") = 0
  /\ (Finished /\ command.hasCleanup /\ (Count("setup") + Count("run") > 0))
       => Count("cleanup") = 1
  /\ (Finished /\ Count("setup") + Count("run") = 0) => Count("cleanup") = 0
  /\ command.hasSetup =>
       \A i \in DOMAIN cmdLog : cmdLog[i][1] = "run" =>
          \E j \in 1..(i - 1) : cmdLog[j][1] = "setup"
  /\ (LacksOption \/ LacksArgument) =>
       /\ cmdLog = <<>>
       /\ cpc \in {"idle", "rejected"}
       /\ cpc = "rejected" =>
            cmdOutcome.error[1] \in {"Missing required option",
                                     "Missing required argument"}

C26_Witness ==
  /\ cpc = "rejected"
  /\ command.hasSetup /\ command.hasCleanup
  /\ Len(command.options) = 1
  /\ command.options[1].required /\ ~command.options[1].hasDefault
  /\ cmdLog = <<<<"command:before", "">>, <<"setup", "">>, <<"run", "">>,
                <<"threw", "run">>, <<"command:error", RunError>>,
                <<"cleanup", "">>>>
  /\ cmdOutcome.error = RunError

(***************************************************************************)
(* C32: whenever execute has resolved and the context of the run has        *)
(* aborted = false, every stage name of the pipeline is a key of            *)
(* stageResults or a member of skippedStages, in both modes, under every    *)
(* error policy, with any listeners.                                        *)
(***************************************************************************)
C32_ResolvedCoversEveryStage ==
  (epc = "resolved" /\ ~ctx.aborted) =>
     \A s \in InPipeline : HasResult(ctx, s) \/ s \in ctx.skippedStages

C32_Witness ==
  /\ epc = "resolved"
  /\ ~ctx.aborted
  /\ options.parallel
  /\ options.onError = "continue"
  /\ stages = <<"A", "B">>
  /\ condSkipped = {"A"}
  /\ ctx.skippedStages = {"A", "B"}
  /\ bodyFails["B"] = 1
  /\ DOMAIN ctx.stageResults = {}

(***************************************************************************)
(* C33: in a sequential run in which abort(ctx) was called and nothing      *)
(* failed (no stage body failed, no listener threw, no executeStage call    *)
(* rejected), no stage is started once the context is aborted: the stage    *)
(* that was running completes and the stages after it stay untouched.       *)
(* execute does not reject; when it has resolved, the context has aborted = *)
(* true, pipeline:end was dispatched once, the stages that ran are a prefix *)
(* of the list, and the result is the value chained through that prefix (a  *)
(* stage skipped by its condition passes its input on).                     *)
(***************************************************************************)
C33_AbortStopsSequentialRun ==
  /\ [] LET NothingFailed ==
              /\ hookThrew = {}
              /\ \A s \in AllNames : bodyFails[s] = 0 /\ task[s].pc # "rejected"
            Ran == {i \in DOMAIN stages : task[stages[i]].pc # "idle"}
            ChainRan[j \in 0..Len(stages)] ==
              IF j = 0 THEN InitialInput
              ELSE IF stages[j] \in condSkipped THEN ChainRan[j - 1]
              ELSE StageFn(stages[j], ChainRan[j - 1])
        IN  (Sequential /\ abortCalled /\ NothingFailed) =>
              /\ epc # "rejected"
              /\ epc = "resolved" =>
                   /\ ctx.aborted
                   /\ hookCount[<<"pipeline:end", "">>] = 1
                   /\ Ran = 1..Cardinality(Ran)
                   /\ \A i \in Ran : task[stages[i]].pc = "fulfilled"
                   /\ outcome.result = ChainRan[Cardinality(Ran)]
  /\ [][(Sequential /\ ctx.aborted) =>
          \A s \in AllNames : task[s].pc = "idle" => task'[s].pc = "idle"]_vars

C33_Witness ==
  /\ Sequential
  /\ abortCalled
  /\ hookThrew = {}
  /\ \A s \in AllNames : bodyFails[s] = 0
  /\ stages = <<"A", "B", "C">>
  /\ epc = "resolved"
  /\ ctx.aborted
  /\ task["A"].pc = "fulfilled"
  /\ task["B"].pc = "fulfilled"
  /\ task["C"].pc = "idle"
  /\ outcome.result = <<"A", "B">>
  /\ hookCount[<<"pipeline:end", "">>] = 1

(***************************************************************************)
(* C34: once execute has rejected in parallel mode, the run is over: no     *)
(* executeStage call of the run is still in progress, and no later step     *)
(* invokes a stage body, dispatches a hook or changes stageResults or       *)
(* skippedStages.  The engine breaks it: Promise.all rejects with the first *)
(* failure of the wave and execute rejects at once, while the other calls   *)
(* of the wave go on, dispatching hooks, invoking bodies and writing to the *)
(* context.                                                                 *)
(***************************************************************************)
C34_RejectedRunIsOver ==
  /\ [] ((options.parallel /\ epc = "rejected") =>
           \A s \in AllNames : ~InFlight(s))
  /\ [][(options.parallel /\ epc = "rejected") =>
          /\ bodyCalls' = bodyCalls
          /\ hookCount' = hookCount
          /\ ctx'.stageResults = ctx.stageResults
          /\ ctx'.skippedStages = ctx.skippedStages]_vars

(***************************************************************************)
(* C35: within one run, under every error policy, a stage body that has     *)
(* returned successfully is never invoked again, and once the stage's       *)
(* executeStage call has settled with the body invoked, the number of       *)
(* invocations is one plus the number of retries made for it.  The engine   *)
(* breaks it: pipeline:stage:after is dispatched inside the try block, so   *)
(* under 'retry' a throwing listener sends a stage whose body returned and  *)
(* whose result was recorded through executeStage, and its body, again.     *)
(***************************************************************************)
C35_BodyNotInvokedAfterSuccess ==
  \A s \in AllNames :
    LET succeeded == bodyCalls[s] - bodyFails[s]
                      - (IF task[s].pc = "body" THEN 1 ELSE 0)
    IN  /\ succeeded <= 1
        /\ succeeded = 1 => task[s].pc # "body"
        /\ (bodyCalls[s] >= 1 /\ Settled(s)) =>
              bodyCalls[s] = 1 + task[s].retryCount

(***************************************************************************)
(* C36, as claimed: when a run has ended, every member of skippedStages had *)
(* pipeline:stage:skip dispatched for it exactly once.  A stage whose       *)
(* failure was absorbed under 'continue' is a member without any dispatch   *)
(* of that hook.                                                            *)
(***************************************************************************)
C36_AsClaimed ==
  epc \in {"resolved", "rejected"} =>
    \A s \in ctx.skippedStages : hookCount[<<"stage:skip", s>>] = 1

(***************************************************************************)
(* C36, amended: a member of skippedStages is there either because its      *)
(* condition was false, and then pipeline:stage:skip was dispatched for it  *)
(* exactly once, or because its failure was absorbed under 'continue', and  *)
(* then pipeline:stage:error was dispatched for it and pipeline:stage:skip  *)
(* never.  No stage has the skip hook dispatched more than once.            *)
(***************************************************************************)
C36_SkipHookForConditionOnly ==
  /\ \A s \in AllNames : hookCount[<<"stage:skip", s>>] <= 1
  /\ \A s \in ctx.skippedStages :
       IF s \in condSkipped
       THEN hookCount[<<"stage:skip", s>>] = 1
       ELSE /\ hookCount[<<"stage:skip", s>>] = 0
            /\ hookCount[<<"stage:error", s>>] >= 1
            /\ options.onError = "continue"
            /\ skippable[s]

C36_Witness ==
  /\ epc = "resolved"
  /\ stages = <<"A", "B">>
  /\ ctx.skippedStages = {"A", "B"}
  /\ condSkipped = {"A"}
  /\ hookCount[<<"stage:skip", "A">>] = 1
  /\ hookCount[<<"stage:skip", "B">>] = 0
  /\ hookCount[<<"stage:error", "B">>] = 1

(***************************************************************************)
(* C39: a parallel run terminates.  While execute awaits a wave the wave is *)
(* not empty, and the step that joins a wave leaves the pending set         *)
(* strictly smaller, so a run has at most as many waves as the pipeline has *)
(* stage names; and when every condition, stage body and listener           *)
(* terminates, a run that was started eventually resolves or rejects.       *)
(***************************************************************************)
C39_ParallelTerminates ==
  /\ [] ((options.parallel /\ epc = "await") =>
           /\ executable # <<>>
           /\ Range(executable) \subseteq pending)
  /\ [][(options.parallel /\ epc = "await" /\ epc' \in {"loop", "end"}) =>
          /\ pending' \subseteq pending
          /\ pending' # pending]_vars
  /\ (options.parallel /\ epc = "start") ~> (epc \in {"resolved", "rejected"})

C39_Witness ==
  /\ options.parallel
  /\ epc = "resolved"
  /\ stages = <<"A", "B", "C">>
  /\ dependencies["B"] = {"A"}
  /\ dependencies["C"] = {"B"}
  /\ pending = {}
  /\ outcome.result = <<"A", "B", "C">>

(***************************************************************************)
(* C37: after abort() was called while run is in progress, in a listener of *)
(* a phase hook or in the transform callback between two phases, run        *)
(* dispatches no further phase hook (the last hook dispatched is the one of *)
(* the phase that was current at the call) and the context it returns has   *)
(* aborted = true.  The manager breaks it for the transform callback: the   *)
(* aborted flag of the phase's context was tested before the callback was   *)
(* called, and the next runPhase replaces this.context by a new context.    *)
(***************************************************************************)
C37_AbortEndsRun ==
  abortLog # <<>> =>
    /\ LastOf(dispatched) = abortLog[1].phase
    /\ rpc = "resolved" => contexts[returned].aborted

(***************************************************************************)
(* C38: a lifecycle run with two valid phases that has no phase to execute  *)
(* (startPhase lies after endPhase in the table, or every phase of the      *)
(* range is in skipPhases) dispatches no hook, calls no transform, does not *)
(* throw, leaves the manager's current phase and current context as they    *)
(* were, and resolves with a context built for the occasion: not the        *)
(* manager's, not aborted, with phase 'init' and data initialData.          *)
(***************************************************************************)
C38_EmptyRun ==
  LET ToExecute == {j \in StartIndex..EndIndex :
                      LIFECYCLE_PHASES[j] \notin runOptions.skipPhases}
  IN  (ValidRange /\ ToExecute = {}) =>
        /\ rpc \in {"idle", "resolved"}
        /\ runError = NoRunError
        /\ dispatched = <<>> /\ transformed = <<>>
        /\ currentPhase = before.currentPhase
        /\ context = before.context
        /\ context # 0 =>
             contexts[context] = createLifecycleContext(currentPhase, StaleData)
        /\ rpc = "resolved" =>
             /\ returned = before.context + 1
             /\ Len(contexts) = returned
             /\ returned # context
             /\ contexts[returned] = createLifecycleContext("init", InitialData)
             /\ ~contexts[returned].aborted

C38_Witness ==
  /\ runOptions.startPhase = "validate"
  /\ runOptions.endPhase = "prepare"
  /\ runOptions.skipPhases = {"validate", "prepare"}
  /\ runOptions.transform
  /\ before.currentPhase = "cleanup"
  /\ rpc = "resolved"
  /\ currentPhase = "cleanup"
  /\ context = 1
  /\ returned = 2
  /\ contexts[2].phase = "init"

(***************************************************************************)
(* C40: after any sequence of register and remove calls, has(n) is true     *)
(* exactly when get(n) returns a command, and every alias in the registry   *)
(* resolves to a registered command that declares that alias.               *)
(***************************************************************************)
C40_RegistryConsistent ==
  /\ \A n \in RegistryNames \cup RegistryAliases :
       has(n) <=> get(n) # NoCommand
  /\ \A a \in DOMAIN aliases :
       /\ aliases[a] \in DOMAIN commands
       /\ a \in commands[aliases[a]].aliases

====
